---- MODULE Spec2Model ----
(***************************************************************************)
(* The single-pass parser of src/src/lparser.cpp as a state machine.       *)
(*                                                                         *)
(* The parser is deterministic in its input, so the machine draws the      *)
(* input as it goes: every action is one statement, or the opening or the  *)
(* closing token of a compound statement, and performs everything the      *)
(* parser does on it (scope bookkeeping, label/goto resolution, upvalue    *)
(* capture, the instructions it emits).  The recursion of the              *)
(* recursive-descent functions is the stack cs of open constructs, each    *)
(* frame holding the C locals of the function that waits for its closing   *)
(* token.                                                                  *)
(*                                                                         *)
(* Indices are those of the source: compiler indices, registers, upvalue   *)
(* indices, label/goto indices and pcs count from 0; the element with      *)
(* index i of a sequence s is s[i + 1].                                    *)
(***************************************************************************)
EXTENDS Integers, Sequences, FiniteSets, TLC

VARIABLES
  fs,       \* stack of FuncState (ls->fs and its prev chain), innermost last
  actvar,   \* dyd->actvar: the active-variable stack shared by all functions
  label,    \* dyd->label: visible labels
  gt,       \* dyd->gt: pending gotos
  status,   \* "parsing" | "done" (luaY_parser returned) | "error" (thrown)
  err,      \* the error thrown, [kind, name]
  res,      \* observations of singlevar during the last action
  afail,    \* lua_assert conditions found false so far
  warn,     \* warnings given (throw_warn) during the last action
  protos,   \* closed function prototypes, in closing order
  cs,       \* open constructs (the C call stack of the parser)
  la,       \* what the lookahead already consumed decides about the next token
  fuel,     \* statements the input may still hold
  op        \* the last action taken

vars == <<fs, actvar, label, gt, status, err, res, afail, warn, protos, cs, la, fuel, op>>

(************************** program constants ******************************)
MAXVARS == 249
NO_JUMP == -1
MAXREGS == 255
RegWidth == 256
MAXARG_C == 255

(****************************** bounds *************************************)
MaxDepth == 5
MaxFuncs == 3
FuelScope == 5
FuelBlocks == 2
FuelLoop == 3
FuelVar == 3
FuelDeep == 4
FuelContinue == 3
FuelClose == 4
FuelCapture == 4
FuelLimit == 252
FuelAssign == 3
FuelTypes == 3
FuelSafeNav == 2
MaxKey == 2
FuelWatermark == 5
FuelIfExpr == 3
FuelLabel == 5
FuelGoto == 5
MaxTargets == 3

Names == {"x", "y"}
ENVN == "_ENV"

(***************************** utilities ***********************************)
Last(s) == s[Len(s)]
Front(s) == SubSeq(s, 1, Len(s) - 1)
Take(s, n) == SubSeq(s, 1, n)
SetMax(S) == CHOOSE m \in S : \A n \in S : n <= m
SetMin(S) == CHOOSE m \in S : \A n \in S : m <= n

(* An instruction: opcode, A operand, jump target (NO_JUMP while pending), *)
(* and a tag saying what emitted it (jumps) or the declared kind of the    *)
(* variable written (stores).                                              *)
Instr(o, a, j, k) == [op |-> o, a |-> a, j |-> j, k |-> k]

(* expdesc: k is the expkind; info is u.info, vidx/ridx are u.var, t/idx   *)
(* are u.ind.                                                              *)
Exp(k, info, vidx, ridx, t, idx) ==
  [k |-> k, info |-> info, vidx |-> vidx, ridx |-> ridx, t |-> t, idx |-> idx]
init_exp(k, i) == Exp(k, i, 0, 0, 0, 0)

NoExp == init_exp("VVOID", 0)

(* A type hint or the kind an expression was seen to have: an expkind, or  *)
(* NoType (0xFF) for none.                                                 *)
NoType == "0xFF"

(* What an uninitialised lu_byte may hold, as far as the parser tells the  *)
(* values apart: a kind, 0xFF, or a byte that is neither.                  *)
Uninit == {"VKINT", "VKSTR", "VTRUE", "VNIL", "VNONRELOC", NoType, "0x00"}

(* Vardesc as new_localvar leaves it; vd.typeprop is written but read only *)
(* for calls of a local, which the expressions drawn here do not hold, and *)
(* is left out.  startpc is the startpc of the debug entry vd.pidx names,  *)
(* -1 while the variable has none.                                         *)
Vardesc(name) ==
  [name |-> name, kind |-> "REG", ridx |-> -1, typehint |-> NoType, startpc |-> -1]

Frame(k, i1, i2, l1, l2, v) ==
  [k |-> k, i1 |-> i1, i2 |-> i2, l1 |-> l1, l2 |-> l2, v |-> v,
   ret |-> [hint |-> NoType, p |-> NoType, live |-> (k = "func")]]

NoErr == [kind |-> "-", name |-> "-"]

(* Results of the expression-level operations: the state and the expdesc. *)
PE(P, e) == [P |-> P, v |-> e]

(* The parser state the translated functions work on. *)
F(P) == P.fs[Len(P.fs)]
SetF(P, f) == [P EXCEPT !.fs[Len(P.fs)] = f]
B(P) == Last(F(P).bl)
SetB(P, b) == [P EXCEPT !.fs[Len(P.fs)].bl[Len(F(P).bl)] = b]
Ok(P) == P.status = "parsing"
Throw(P, kind, name) ==
  [P EXCEPT !.status = "error", !.err = [kind |-> kind, name |-> name]]
PC(P) == Len(F(P).code)

(***************************** code buffer *********************************)
luaK_code(P, i) == IF ~Ok(P) THEN P ELSE SetF(P, [F(P) EXCEPT !.code = Append(@, i)])

luaK_patchlist(P, list, target) ==
  IF ~Ok(P) THEN P
  ELSE LET c == F(P).code
       IN SetF(P, [F(P) EXCEPT !.code =
                    [p \in 1..Len(c) |-> IF (p - 1) \in list THEN [c[p] EXCEPT !.j = target] ELSE c[p]]])

luaK_patchtohere(P, list) == luaK_patchlist(P, list, PC(P))

luaK_reserveregs(P, n) ==
  IF ~Ok(P) THEN P
  ELSE LET f == F(P)
           newstack == f.freereg + n
       IN IF newstack > f.maxstack /\ newstack >= MAXREGS
          THEN Throw(P, "TooManyRegisters", "-")
          ELSE SetF(P, [f EXCEPT !.freereg = (f.freereg + n) % RegWidth,
                                 !.maxstack = IF newstack > @ THEN newstack ELSE @])

(************************ active-variable table ****************************)
getlocalvardesc(av, f, vidx) == av[f.firstlocal + vidx + 1]

RECURSIVE reglevel(_, _, _)
reglevel(av, f, nvar) ==
  IF nvar <= 0 THEN 0
  ELSE LET vd == getlocalvardesc(av, f, nvar - 1)
       IN IF vd.kind # "CTC" THEN vd.ridx + 1 ELSE reglevel(av, f, nvar - 1)

luaY_nvarstack(av, f) == reglevel(av, f, f.nactvar)

(* localdebuginfo: a compile-time constant has no debug entry *)
localdebuginfo(av, f, vidx) == getlocalvardesc(av, f, vidx).kind # "CTC"

(* the loop of new_localvar that warns of a duplicate declaration: i runs  *)
(* from fs->firstlocal up to luaY_nvarstack(fs) and is used as the index   *)
(* of getlocalvardesc and localdebuginfo                                   *)
shadowwarn(P, name) ==
  LET first == F(P).firstlocal
      locals == luaY_nvarstack(P.actvar, F(P))
      range == [k \in 1 .. (IF locals > first THEN locals - first ELSE 0) |-> first + k - 1]
      Match(i) == /\ name # "(for state)" /\ name # "(switch)"
                  /\ localdebuginfo(P.actvar, F(P), i)
                  /\ getlocalvardesc(P.actvar, F(P), i).name = name
      hits == SelectSeq(range, Match)
  IN [P EXCEPT !.warn = @ \o [k \in 1 .. Len(hits) |->
                                [kind |-> "DuplicateLocalDeclaration", name |-> name,
                                 vidx |-> hits[k]]]]

(* new_localvar that counts the variables of the enclosing functions too *)
new_localvar_shared(P, name) ==
  IF ~Ok(P) THEN P
  ELSE LET W == shadowwarn(P, name)
       IN IF Len(W.actvar) + 1 > MAXVARS
          THEN Throw(W, "TooManyLocals", name)
          ELSE [W EXCEPT !.actvar = Append(@, Vardesc(name))]

new_localvar(P, name) ==
  IF ~Ok(P) THEN P
  ELSE LET W == shadowwarn(P, name)
       IN IF Len(W.actvar) + 1 - F(W).firstlocal > MAXVARS
          THEN Throw(W, "TooManyLocals", name)
          ELSE [W EXCEPT !.actvar = Append(@, Vardesc(name))]

(* var->vd.kind = kind, for the variable declared last *)
setkind(P, kind) ==
  IF ~Ok(P) THEN P ELSE [P EXCEPT !.actvar[Len(P.actvar)].kind = kind]

RECURSIVE adjustfrom(_, _, _)
adjustfrom(P, nvars, lvl) ==
  IF ~Ok(P) \/ nvars <= 0 THEN P
  ELSE LET f == F(P)
           P1 == [SetF(P, [f EXCEPT !.nactvar = @ + 1])
                    EXCEPT !.actvar[f.firstlocal + f.nactvar + 1].ridx = lvl,
                           !.actvar[f.firstlocal + f.nactvar + 1].startpc = PC(P)]
       IN adjustfrom(P1, nvars - 1, lvl + 1)

adjustlocalvars(P, nvars) ==
  IF ~Ok(P) THEN P ELSE adjustfrom(P, nvars, luaY_nvarstack(P.actvar, F(P)))

(* removevars that lowers nactvar but keeps the entries *)
removevars_keep(P, tolevel) ==
  IF ~Ok(P) THEN P ELSE SetF(P, [F(P) EXCEPT !.nactvar = tolevel])

removevars(P, tolevel) ==
  IF ~Ok(P) THEN P
  ELSE LET f == F(P)
       IN [SetF(P, [f EXCEPT !.nactvar = tolevel])
             EXCEPT !.actvar = Take(@, Len(@) - (f.nactvar - tolevel))]

(******************************* upvalues **********************************)
(* searchupvalue that finds nothing *)
searchupvalue_none(f, name) == -1

searchupvalue(f, name) ==
  LET S == {i \in 1..Len(f.ups) : f.ups[i].name = name}
  IN IF S = {} THEN -1 ELSE SetMin(S) - 1

(* newupvalue that takes every captured variable to be in the stack of    *)
(* the enclosing function                                                  *)
newupvalue_instack(fsq, av, lvl, name, v) ==
  LET prev == fsq[lvl - 1]
      up == [name |-> name, instack |-> TRUE,
             idx |-> IF v.k = "VLOCAL" THEN v.ridx ELSE v.info,
             kind |-> IF v.k = "VLOCAL" THEN getlocalvardesc(av, prev, v.vidx).kind
                      ELSE prev.ups[v.info + 1].kind]
  IN [fsq[lvl] EXCEPT !.ups = Append(@, up)]

newupvalue(fsq, av, lvl, name, v) ==
  LET prev == fsq[lvl - 1]
      up == IF v.k = "VLOCAL"
            THEN [name |-> name, instack |-> TRUE, idx |-> v.ridx,
                  kind |-> getlocalvardesc(av, prev, v.vidx).kind]
            ELSE [name |-> name, instack |-> FALSE, idx |-> v.info,
                  kind |-> prev.ups[v.info + 1].kind]
  IN [fsq[lvl] EXCEPT !.ups = Append(@, up)]

searchvar(av, f, n) ==
  LET S == {i \in 0..(f.nactvar - 1) : getlocalvardesc(av, f, i).name = n}
  IN IF S = {} THEN init_exp("NONE", 0)
     ELSE LET i == SetMax(S)
              vd == getlocalvardesc(av, f, i)
          IN IF vd.kind = "CTC" THEN init_exp("VCONST", f.firstlocal + i)
             ELSE Exp("VLOCAL", 0, i, vd.ridx, 0, 0)

markupval(f, level) ==
  LET b == CHOOSE i \in 1..Len(f.bl) :
             /\ f.bl[i].nactvar <= level
             /\ \A j \in (i + 1)..Len(f.bl) : f.bl[j].nactvar > level
  IN [f EXCEPT !.bl[b].upval = TRUE, !.needclose = TRUE]

marktobeclosed(P) ==
  IF ~Ok(P) THEN P
  ELSE [SetB(P, [B(P) EXCEPT !.upval = TRUE, !.insidetbc = TRUE])
          EXCEPT !.fs[Len(P.fs)].needclose = TRUE]

RECURSIVE singlevaraux(_, _, _, _, _)
singlevaraux(fsq, av, lvl, n, base) ==
  IF lvl = 0 THEN [fs |-> fsq, v |-> init_exp("VVOID", 0)]
  ELSE LET f == fsq[lvl]
           v == searchvar(av, f, n)
       IN IF v.k # "NONE"
          THEN IF v.k = "VLOCAL" /\ ~base
               THEN [fs |-> [fsq EXCEPT ![lvl] = markupval(f, v.vidx)], v |-> v]
               ELSE [fs |-> fsq, v |-> v]
          ELSE LET idx == searchupvalue(f, n)
               IN IF idx >= 0 THEN [fs |-> fsq, v |-> init_exp("VUPVAL", idx)]
                  ELSE LET r == singlevaraux(fsq, av, lvl - 1, n, FALSE)
                       IN IF r.v.k \in {"VLOCAL", "VUPVAL"}
                          THEN LET fs2 == [r.fs EXCEPT ![lvl] = newupvalue(r.fs, av, lvl, n, r.v)]
                               IN [fs |-> fs2, v |-> init_exp("VUPVAL", Len(fs2[lvl].ups) - 1)]
                          ELSE r

(* luaK_indexed(fs, var, key) for a string key: the table is an upvalue or *)
(* a register.                                                             *)
luaK_indexed(t) ==
  IF t.k = "VUPVAL" THEN Exp("VINDEXUP", 0, 0, 0, t.info, 0)
  ELSE Exp("VINDEXSTR", 0, 0, 0, t.ridx, 0)

(* One observation of name resolution in the current function. *)
Seen(P, v) ==
  [k |-> v.k, info |-> v.info, vidx |-> v.vidx, ridx |-> v.ridx,
   nactvar |-> F(P).nactvar, freereg |-> F(P).freereg, depth |-> Len(P.fs)]

singlevar(P, varname) ==
  IF ~Ok(P) THEN PE(P, NoExp)
  ELSE LET env(P1, r2) == PE([P1 EXCEPT !.fs = r2.fs], luaK_indexed(r2.v))
           global(P1) == env(P1, singlevaraux(P1.fs, P1.actvar, Len(P1.fs), ENVN, TRUE))
           seen(r) == [P EXCEPT !.fs = r.fs, !.res = Append(@, Seen(P, r.v))]
           found(r) == IF r.v.k = "VVOID" THEN global(seen(r)) ELSE PE(seen(r), r.v)
       IN found(singlevaraux(P.fs, P.actvar, Len(P.fs), varname, TRUE))

(*********************** state, initial state ******************************)
Block(isloop, f, nlabel, ngt) ==
  [isloop |-> isloop, scopeend |-> {}, nactvar |-> f.nactvar,
   firstlabel |-> nlabel, firstgoto |-> ngt, upval |-> FALSE,
   insidetbc |-> (f.bl # <<>> /\ Last(f.bl).insidetbc),
   startpc |-> Len(f.code)]

enterblock(P, isloop) ==
  IF ~Ok(P) THEN P
  ELSE LET f == F(P)
           P1 == SetF(P, [f EXCEPT !.bl = Append(@, Block(isloop, f, Len(P.label), Len(P.gt)))])
       IN IF f.freereg = luaY_nvarstack(P.actvar, f) THEN P1
          ELSE [P1 EXCEPT !.afail = @ \cup {"enterblock"}]

NewFuncState(nactvars, nlabels) ==
  [nactvar |-> 0, freereg |-> 0, maxstack |-> 2, firstlocal |-> nactvars,
   firstlabel |-> nlabels, needclose |-> FALSE, isvararg |-> FALSE,
   ups |-> <<>>, bl |-> <<>>, code |-> <<>>]

open_func(P) ==
  IF ~Ok(P) THEN P
  ELSE enterblock([P EXCEPT !.fs = Append(@, NewFuncState(Len(P.actvar), Len(P.label)))], FALSE)

setvararg(P, nparams) ==
  luaK_code(SetF(P, [F(P) EXCEPT !.isvararg = TRUE]), Instr("VARARGPREP", nparams, NO_JUMP, "-"))

Empty ==
  [fs |-> <<>>, actvar |-> <<>>, label |-> <<>>, gt |-> <<>>, status |-> "parsing",
   err |-> NoErr, res |-> <<>>, afail |-> {}, warn |-> <<>>, protos |-> <<>>]

(* mainfunc up to the first statement: the main function is open, vararg,  *)
(* with the upvalue _ENV.                                                  *)
MainOpen ==
  LET P1 == setvararg(open_func(Empty), 0)
      env == [name |-> ENVN, instack |-> TRUE, idx |-> 0, kind |-> "REG"]
  IN SetF(P1, [F(P1) EXCEPT !.ups = <<env>>])

(**************************** labels and gotos *****************************)
newlabelentry(P, name, pc) ==
  [name |-> name, nactvar |-> F(P).nactvar, close |-> FALSE, pc |-> pc]

newgotoentry(P, name, pc) ==
  IF ~Ok(P) THEN P ELSE [P EXCEPT !.gt = Append(@, newlabelentry(P, name, pc))]

jumpscopeerror(P, g) ==
  Throw(P, "JumpIntoScope", getlocalvardesc(P.actvar, F(P), g.nactvar).name)

RemoveAt(s, i) == SubSeq(s, 1, i - 1) \o SubSeq(s, i + 1, Len(s))

(* solvegoto without the test for entering a scope *)
solvegoto_unchecked(P, g, lb) ==
  IF ~Ok(P) THEN P
  ELSE [luaK_patchlist(P, {P.gt[g + 1].pc}, lb.pc) EXCEPT !.gt = RemoveAt(@, g + 1)]

solvegoto(P, g, lb) ==
  IF ~Ok(P) THEN P
  ELSE LET e == P.gt[g + 1]
       IN IF e.nactvar < lb.nactvar THEN jumpscopeerror(P, e)
          ELSE [luaK_patchlist(P, {e.pc}, lb.pc) EXCEPT !.gt = RemoveAt(@, g + 1)]

findlabel(P, name) ==
  LET S == {i \in (F(P).firstlabel + 1)..Len(P.label) : P.label[i].name = name}
  IN IF S = {} THEN 0 ELSE SetMin(S)

RECURSIVE solvefrom(_, _, _, _)
solvefrom(P, lb, i, needsclose) ==
  IF ~Ok(P) \/ i >= Len(P.gt) THEN [P |-> P, r |-> needsclose]
  ELSE IF P.gt[i + 1].name = lb.name
       THEN solvefrom(solvegoto(P, i, lb), lb, i, needsclose \/ P.gt[i + 1].close)
       ELSE solvefrom(P, lb, i + 1, needsclose)

solvegotos(P, lb) == solvefrom(P, lb, B(P).firstgoto, FALSE)

(* createlabel that keeps the current level for a label at the end of a    *)
(* block                                                                   *)
createlabel_level(P, name, last) ==
  IF ~Ok(P) THEN [P |-> P, r |-> FALSE]
  ELSE LET lb == newlabelentry(P, name, PC(P))
           close(S) == IF S.r
                       THEN [P |-> luaK_code(S.P, Instr("CLOSE", luaY_nvarstack(S.P.actvar, F(S.P)),
                                                        NO_JUMP, "label")),
                             r |-> TRUE]
                       ELSE S
       IN close(solvegotos([P EXCEPT !.label = Append(@, lb)], lb))

(* createlabel that adds the label and solves no pending goto *)
createlabel_unsolved(P, name, last) ==
  IF ~Ok(P) THEN [P |-> P, r |-> FALSE]
  ELSE [P |-> [P EXCEPT !.label = Append(@, newlabelentry(P, name, PC(P)))], r |-> FALSE]

createlabel(P, name, last) ==
  IF ~Ok(P) THEN [P |-> P, r |-> FALSE]
  ELSE LET l0 == newlabelentry(P, name, PC(P))
           lb == IF last THEN [l0 EXCEPT !.nactvar = B(P).nactvar] ELSE l0
           close(S) == IF S.r
                       THEN [P |-> luaK_code(S.P, Instr("CLOSE", luaY_nvarstack(S.P.actvar, F(S.P)),
                                                        NO_JUMP, "label")),
                             r |-> TRUE]
                       ELSE S
       IN close(solvegotos([P EXCEPT !.label = Append(@, lb)], lb))

(* movegotosout that marks every goto leaving a variable scope, whether    *)
(* or not the block has an upvalue                                         *)
movegotosout_always(P, bl, av) ==
  IF ~Ok(P) THEN P
  ELSE LET f == F(P)
           out(g) == [g EXCEPT
                        !.close = IF reglevel(av, f, g.nactvar) > reglevel(av, f, bl.nactvar)
                                  THEN TRUE ELSE g.close,
                        !.nactvar = bl.nactvar]
       IN [P EXCEPT !.gt = [i \in 1..Len(P.gt) |->
                              IF i - 1 < bl.firstgoto THEN P.gt[i] ELSE out(P.gt[i])]]

(* av is the variable table as it was before removevars: the array keeps   *)
(* the removed entries, and reglevel reads them.                           *)
movegotosout(P, bl, av) ==
  IF ~Ok(P) THEN P
  ELSE LET f == F(P)
           out(g) == [g EXCEPT
                        !.close = IF reglevel(av, f, g.nactvar) > reglevel(av, f, bl.nactvar)
                                  THEN g.close \/ bl.upval ELSE g.close,
                        !.nactvar = bl.nactvar]
       IN [P EXCEPT !.gt = [i \in 1..Len(P.gt) |->
                              IF i - 1 < bl.firstgoto THEN P.gt[i] ELSE out(P.gt[i])]]

(* undefgoto without the special case for break *)
undefgoto_plain(P, g) == Throw(P, "UndefinedLabel", g.name)

undefgoto(P, g) ==
  IF g.name = "break" THEN Throw(P, "BreakOutsideLoop", g.name)
  ELSE Throw(P, "UndefinedLabel", g.name)

(* leaveblock that emits no Close of its own *)
leaveblock_noclose(P) ==
  IF ~Ok(P) THEN P
  ELSE LET bl == B(P)
           previous == Len(F(P).bl) > 1
           stklevel == reglevel(P.actvar, F(P), bl.nactvar)
           gotos(P4, av) ==
             IF previous THEN movegotosout(P4, bl, av)
             ELSE IF bl.firstgoto < Len(P4.gt) THEN undefgoto(P4, P4.gt[bl.firstgoto + 1])
             ELSE P4
           restore(P3) ==
             [SetF(P3, [F(P3) EXCEPT !.freereg = stklevel]) EXCEPT !.label = Take(@, bl.firstlabel)]
           pop(P2) ==
             IF ~Ok(P2) THEN P2
             ELSE gotos(restore(removevars(SetF(P2, [F(P2) EXCEPT !.bl = Front(@)]), bl.nactvar)),
                        P2.actvar)
       IN pop((IF bl.isloop THEN createlabel(P, "break", FALSE) ELSE [P |-> P, r |-> FALSE]).P)

leaveblock(P) ==
  IF ~Ok(P) THEN P
  ELSE LET bl == B(P)
           previous == Len(F(P).bl) > 1
           stklevel == reglevel(P.actvar, F(P), bl.nactvar)
           gotos(P4, av) ==
             IF previous THEN movegotosout(P4, bl, av)
             ELSE IF bl.firstgoto < Len(P4.gt) THEN undefgoto(P4, P4.gt[bl.firstgoto + 1])
             ELSE P4
           restore(P3) ==
             [SetF(P3, [F(P3) EXCEPT !.freereg = stklevel]) EXCEPT !.label = Take(@, bl.firstlabel)]
           pop(P2) ==
             IF ~Ok(P2) THEN P2
             ELSE gotos(restore(removevars(SetF(P2, [F(P2) EXCEPT !.bl = Front(@)]), bl.nactvar)),
                        P2.actvar)
           close(C) ==
             pop(IF ~C.r /\ previous /\ bl.upval
                 THEN luaK_code(C.P, Instr("CLOSE", stklevel, NO_JUMP, "block"))
                 ELSE C.P)
       IN close(IF bl.isloop THEN createlabel(P, "break", FALSE) ELSE [P |-> P, r |-> FALSE])

close_func(P) ==
  IF ~Ok(P) THEN P
  ELSE LET pop(P2) ==
             IF ~Ok(P2) THEN P2
             ELSE [P2 EXCEPT !.fs = Front(@),
                             !.protos = Append(@, [code |-> F(P2).code, ups |-> F(P2).ups,
                                                   depth |-> Len(P2.fs)])]
       IN pop(leaveblock(luaK_code(P, Instr("RETURN", luaY_nvarstack(P.actvar, F(P)),
                                            NO_JUMP, "final"))))

(* statement() that leaves the registers of the statement allocated *)
statement_end_keep(P) == P

(* statement(): the tail every statement ends with *)
statement_end(P) ==
  IF ~Ok(P) THEN P
  ELSE LET f == F(P)
           asserted == f.maxstack >= f.freereg /\ f.freereg >= luaY_nvarstack(P.actvar, f)
       IN [SetF(P, [f EXCEPT !.freereg = luaY_nvarstack(P.actvar, f)])
             EXCEPT !.afail = IF asserted THEN @ ELSE @ \cup {"statement"}]

(**************************** jumps and tests ******************************)
luaK_jump(P, tag) == luaK_code(P, Instr("JMP", 0, NO_JUMP, tag))

(* A condition: the test and the jump taken when it does not let control   *)
(* into the body.  The pc of that jump is PC(P) + 1 before the call.       *)
cond(P, tag) == luaK_jump(luaK_code(P, Instr("TEST", 0, NO_JUMP, "-")), tag)

gotostat(P, name) ==
  IF ~Ok(P) THEN P
  ELSE LET l == findlabel(P, name)
           back(lb, lblevel) ==
             luaK_code(IF luaY_nvarstack(P.actvar, F(P)) > lblevel
                       THEN luaK_code(P, Instr("CLOSE", lblevel, NO_JUMP, "goto"))
                       ELSE P,
                       Instr("JMP", 0, lb.pc, "goto"))
       IN IF l = 0 THEN newgotoentry(luaK_jump(P, "goto"), name, PC(P))
          ELSE back(P.label[l], reglevel(P.actvar, F(P), P.label[l].nactvar))

breakstat(P) == newgotoentry(luaK_jump(P, "break"), "break", PC(P))

(* the search of continuestat without the count: the nearest loop block *)
findloop_nearest(bls, i, backwards, upval) ==
  LET S == {b \in 1..i : bls[b].isloop}
  IN [b |-> IF S = {} THEN 0 ELSE SetMax(S), upval |-> upval]

RECURSIVE findloop(_, _, _, _)
findloop(bls, i, backwards, upval) ==
  IF i = 0 THEN [b |-> 0, upval |-> upval]
  ELSE IF ~bls[i].isloop THEN findloop(bls, i - 1, backwards, upval \/ bls[i].upval)
  ELSE IF backwards - 1 = 0 THEN [b |-> i, upval |-> upval]
  ELSE findloop(bls, i - 1, backwards - 1, upval \/ bls[i].upval)

continuestat(P, backwards) ==
  IF ~Ok(P) THEN P
  ELSE LET jump(P1, b) == [luaK_jump(P1, "continue")
                             EXCEPT !.fs[Len(P.fs)].bl[b].scopeend = @ \cup {PC(P1)}]
           found(w) ==
             IF w.b = 0 THEN Throw(P, "ContinueOutsideLoop", "continue")
             ELSE jump(IF w.upval
                       THEN luaK_code(P, Instr("CLOSE", F(P).bl[w.b].nactvar, NO_JUMP, "continue"))
                       ELSE P,
                       w.b)
       IN found(findloop(F(P).bl, Len(F(P).bl), backwards, FALSE))

checkrepeated(P, name) ==
  IF Ok(P) /\ findlabel(P, name) # 0 THEN Throw(P, "DuplicateLabel", name) ELSE P

labelstat(P, name, last) == createlabel(checkrepeated(P, name), name, last).P

(************************ expressions and stores ***************************)
vkisconst(k) == k \in {"VNIL", "VTRUE", "VFALSE", "VKINT", "VKFLT", "VKSTR", "VCONST"}

freeexp(P, e) ==
  IF Ok(P) /\ e.k = "VNONRELOC" /\ e.info >= luaY_nvarstack(P.actvar, F(P))
  THEN SetF(P, [F(P) EXCEPT !.freereg = (@ - 1) % RegWidth])
  ELSE P

luaK_exp2nextreg(P, e) ==
  IF ~Ok(P) THEN PE(P, e)
  ELSE LET load(P1, reg) ==
             IF e.k = "VNONRELOC" /\ e.info = reg THEN PE(P1, e)
             ELSE PE(luaK_code(P1, Instr("LOAD", reg, NO_JUMP, e.k)), init_exp("VNONRELOC", reg))
           next(P0) == load(luaK_reserveregs(P0, 1), F(P0).freereg)
       IN next(freeexp(P, e))

luaK_exp2anyreg(P, e) ==
  IF e.k = "VNONRELOC" THEN PE(P, e)
  ELSE IF e.k = "VLOCAL" THEN PE(P, init_exp("VNONRELOC", e.ridx))
  ELSE luaK_exp2nextreg(P, e)

(* The kind the variable behind upvalue u of function lvl was declared     *)
(* with, found by walking the capture chain down to the local.             *)
RECURSIVE DeclKind(_, _, _, _)
DeclKind(fsq, av, lvl, u) ==
  LET up == fsq[lvl].ups[u + 1]
  IN IF lvl = 1 THEN "REG"
     ELSE IF up.instack
          THEN LET prev == fsq[lvl - 1]
                   S == {i \in 0..(prev.nactvar - 1) :
                           /\ getlocalvardesc(av, prev, i).kind # "CTC"
                           /\ getlocalvardesc(av, prev, i).ridx = up.idx}
               IN IF S = {} THEN "?" ELSE getlocalvardesc(av, prev, SetMax(S)).kind
          ELSE DeclKind(fsq, av, lvl - 1, up.idx)

luaK_storevar(P, var, ex) ==
  IF ~Ok(P) THEN P
  ELSE LET store(R, o, a, k) == freeexp(luaK_code(R.P, Instr(o, a, NO_JUMP, k)), R.v)
       IN IF var.k = "VLOCAL"
          THEN luaK_code(freeexp(P, ex),
                         Instr("SETLOCAL", var.ridx, NO_JUMP,
                               getlocalvardesc(P.actvar, F(P), var.vidx).kind))
          ELSE IF var.k = "VUPVAL"
          THEN store(luaK_exp2anyreg(P, ex), "SETUPVAL", var.info,
                     DeclKind(P.fs, P.actvar, Len(P.fs), var.info))
          ELSE store(IF vkisconst(ex.k) THEN PE(P, ex) ELSE luaK_exp2anyreg(P, ex),
                     IF var.k = "VINDEXUP" THEN "SETTABUP" ELSE "SETFIELD", var.t, "REG")

(* check_readonly without the case of upvalues *)
check_readonly_locals(P, e) ==
  IF ~Ok(P) THEN P
  ELSE IF e.k = "VCONST" THEN Throw(P, "AssignToConst", P.actvar[e.info + 1].name)
  ELSE IF e.k = "VLOCAL"
       THEN LET vd == getlocalvardesc(P.actvar, F(P), e.vidx)
            IN IF vd.kind # "REG" THEN Throw(P, "AssignToConst", vd.name) ELSE P
  ELSE P

check_readonly(P, e) ==
  IF ~Ok(P) THEN P
  ELSE IF e.k = "VCONST" THEN Throw(P, "AssignToConst", P.actvar[e.info + 1].name)
  ELSE IF e.k = "VLOCAL"
       THEN LET vd == getlocalvardesc(P.actvar, F(P), e.vidx)
            IN IF vd.kind # "REG" THEN Throw(P, "AssignToConst", vd.name) ELSE P
  ELSE IF e.k = "VUPVAL"
       THEN LET up == F(P).ups[e.info + 1]
            IN IF up.kind # "REG" THEN Throw(P, "AssignToConst", up.name) ELSE P
  ELSE P

adjust_assign(P, nvars, nexps, e) ==
  IF ~Ok(P) THEN P
  ELSE LET needed == nvars - nexps
           fill(P0) == IF needed > 0
                       THEN luaK_code(P0, Instr("LOADNIL", F(P0).freereg, NO_JUMP, "-"))
                       ELSE P0
           adjust(P1) == IF needed > 0 THEN luaK_reserveregs(P1, needed)
                         ELSE IF Ok(P1)
                              THEN SetF(P1, [F(P1) EXCEPT !.freereg = (@ + needed) % RegWidth])
                              ELSE P1
       IN adjust(IF e.k = "VCALL" THEN P
                 ELSE fill(IF e.k # "VVOID" THEN luaK_exp2nextreg(P, e).P ELSE P))

(* An expression of one of the forms the input draws: "k" a literal, "f"   *)
(* the call of a global function, otherwise a variable name.               *)
(* funcargs with an empty argument list, the function expression in v *)
funcargs(P, v) ==
  IF ~Ok(P) THEN PE(P, v)
  ELSE LET free(P1) == SetF(P1, [F(P1) EXCEPT !.freereg = (v.info + 1) % RegWidth])
       IN PE(free(luaK_code(P, Instr("CALL", v.info, NO_JUMP, "-"))), init_exp("VCALL", PC(P)))

luaK_setoneret(P, e) ==
  IF Ok(P) /\ e.k = "VCALL" THEN init_exp("VNONRELOC", F(P).code[e.info + 1].a) ELSE e

(* suffixedexp for  name() *)
callexpr(P, name) ==
  LET call(N) == funcargs(N.P, N.v)
      func(R) == call(luaK_exp2nextreg(R.P, R.v))
  IN func(singlevar(P, name))

expr(P, form) ==
  IF ~Ok(P) THEN PE(P, NoExp)
  ELSE IF form = "k" THEN PE(P, init_exp("VKINT", 0))
  ELSE IF form = "f" THEN callexpr(P, "f")
  ELSE singlevar(P, form)

(* luaK_infix and luaK_posfix for an arithmetic operator *)
luaK_infix(P, e) == luaK_exp2anyreg(P, e)

luaK_posfix(P, e1, e2) ==
  IF ~Ok(P) THEN PE(P, e1)
  ELSE LET arith(R) == PE(freeexp(freeexp(luaK_code(R.P, Instr("ARITH", 0, NO_JUMP, "-")), R.v), e1),
                          init_exp("VRELOC", PC(R.P)))
       IN arith(IF vkisconst(e2.k) THEN PE(P, e2) ELSE luaK_exp2anyreg(P, e2))

checktoclose(P, level) ==
  IF ~Ok(P) \/ level = -1 THEN P
  ELSE luaK_code(marktobeclosed(P), Instr("TBC", reglevel(P.actvar, F(P), level), NO_JUMP, "-"))

(* gettypehint for the type name after ':', "-" when there is no colon *)
TypeNames == {"number", "table", "string", "userdata", "boolean", "bool", "nil", "function"}
gettypehint(tname) ==
  IF tname = "number" THEN "VKINT"
  ELSE IF tname = "table" THEN "VNONRELOC"
  ELSE IF tname = "string" THEN "VKSTR"
  ELSE IF tname \in {"boolean", "bool"} THEN "VTRUE"
  ELSE IF tname = "nil" THEN "VNIL"
  ELSE NoType

(* What expr leaves in *prop for the forms of expr: a literal sets it, a   *)
(* variable or the call of a global leaves what it held.                   *)
exprprop(form, held) == IF form = "k" THEN "VKINT" ELSE held

(* process_assign for the variable at position i of actvar *)
process_assign(P, i, k) ==
  IF ~Ok(P) THEN P
  ELSE LET vd == P.actvar[i]
       IN IF vd.typehint # NoType /\ k # NoType /\ vd.typehint # k
          THEN [P EXCEPT !.warn = Append(@, [kind |-> "TypeMismatch", name |-> vd.name,
                                             hint |-> vd.typehint, k |-> k])]
          ELSE P

(* localstat for  local name: tname <attr> [= rhs] *)
localstat_hint(P, name, tname, attr, rhs) ==
  LET toclose == IF attr = "TOCLOSE" THEN F(P).nactvar ELSE -1
      nexps == IF rhs = "none" THEN 0 ELSE 1
      count(Q) == IF Ok(Q) THEN SetF(Q, [F(Q) EXCEPT !.nactvar = @ + 1]) ELSE Q
      assign(Q) == IF nexps = 1 THEN process_assign(Q, Len(Q.actvar), exprprop(rhs, NoType))
                   ELSE Q
      activate(R) ==
        IF ~Ok(R.P) THEN R.P
        ELSE IF nexps = 1 /\ attr = "CONST" /\ vkisconst(R.v.k)
             THEN count(adjustlocalvars(setkind(R.P, "CTC"), 0))
             ELSE adjustlocalvars(adjust_assign(assign(R.P), 1, nexps, R.v), 1)
      explist(P1) == IF rhs = "none" THEN PE(P1, NoExp) ELSE expr(P1, rhs)
      hint(P1) == IF ~Ok(P1) THEN P1
                  ELSE IF tname \notin TypeNames \cup {"-"}
                  THEN Throw(P1, "UnknownTypeHint", tname)
                  ELSE [setkind(P1, attr) EXCEPT !.actvar[Len(P1.actvar)].typehint =
                                                    gettypehint(tname)]
  IN checktoclose(activate(explist(hint(new_localvar(P, name)))), toclose)

localstat(P, name, attr, rhs) ==
  LET toclose == IF attr = "TOCLOSE" THEN F(P).nactvar ELSE -1
      nexps == IF rhs = "none" THEN 0 ELSE 1
      count(Q) == IF Ok(Q) THEN SetF(Q, [F(Q) EXCEPT !.nactvar = @ + 1]) ELSE Q
      activate(R) ==
        IF ~Ok(R.P) THEN R.P
        ELSE IF nexps = 1 /\ attr = "CONST" /\ vkisconst(R.v.k)
             THEN count(adjustlocalvars(setkind(R.P, "CTC"), 0))
             ELSE adjustlocalvars(adjust_assign(R.P, 1, nexps, R.v), 1)
      explist(P1) == IF rhs = "none" THEN PE(P1, NoExp) ELSE expr(P1, rhs)
  IN checktoclose(activate(explist(setkind(new_localvar(P, name), attr))), toclose)

(* luaK_exp2reg: the value of e into register reg *)
luaK_exp2reg(P, e, reg) ==
  IF ~Ok(P) THEN PE(P, e)
  ELSE LET d == IF e.k = "VLOCAL" THEN init_exp("VNONRELOC", e.ridx) ELSE luaK_setoneret(P, e)
       IN PE(IF d.k = "VNONRELOC" /\ d.info = reg THEN P
             ELSE luaK_code(P, Instr("LOAD", reg, NO_JUMP, e.k)),
             init_exp("VNONRELOC", reg))

(* if c then e1 else e2, as an expression *)
ifexpr(P, e1, e2) ==
  IF ~Ok(P) THEN PE(P, NoExp)
  ELSE LET condition == PC(P) + 1
           else(P3, reg, escape) ==
             LET into(R) == luaK_exp2reg(R.P, R.v, reg)
                 here(T) == PE(luaK_patchtohere(T.P, {escape}), T.v)
             IN here(into(expr(P3, e2)))
           jump(R) ==
             IF ~Ok(R.P) THEN PE(R.P, NoExp)
             ELSE else(luaK_patchtohere(luaK_jump(R.P, "escape"), {condition}),
                       R.v.info, PC(R.P))
           then(R) == jump(luaK_exp2anyreg(R.P, luaK_setoneret(R.P, R.v)))
       IN then(expr(cond(P, "cond"), e1))

(* local name = if c then e1 else e2 *)
localstat_ifexpr(P, name, e1, e2) ==
  LET activate(R) ==
        IF ~Ok(R.P) THEN R.P ELSE adjustlocalvars(adjust_assign(R.P, 1, 1, R.v), 1)
  IN activate(ifexpr(new_localvar(P, name), e1, e2))

(* luaK_prefix for unary minus: an integer constant is folded, any other   *)
(* operand goes to a register and the operation is emitted                 *)
luaK_prefix(P, e) ==
  IF ~Ok(P) THEN PE(P, e)
  ELSE IF e.k = "VKINT" THEN PE(P, init_exp("VKINT", 0 - e.info))
  ELSE LET unm(R) == PE(freeexp(luaK_code(R.P, Instr("UNM", 0, NO_JUMP, "-")), R.v),
                        init_exp("VRELOC", PC(R.P)))
       IN unm(luaK_exp2anyreg(P, e))

(* expr for the key of an index: form is <<sign, kind, n>>, the literal n  *)
(* or a string literal, after a unary minus when sign is "-"; subexpr      *)
(* skips the operator, parses the operand and applies luaK_prefix          *)
keyexpr(P, form) ==
  LET literal == IF form[2] = "int" THEN init_exp("VKINT", form[3]) ELSE init_exp("VKSTR", 0)
  IN IF form[1] = "-" THEN luaK_prefix(P, literal) ELSE PE(P, literal)

(* luaK_indexed for a table in a register: a string constant, an integer   *)
(* that fits operand C, or the key in a register; the immediate of LOADI   *)
(* is kept in the field j                                                  *)
luaK_indexed_key(P, t, key) ==
  IF ~Ok(P) THEN PE(P, t)
  ELSE IF key.k = "VKSTR" THEN PE(P, Exp("VINDEXSTR", 0, 0, 0, t.info, 0))
  ELSE IF key.k = "VKINT" /\ key.info >= 0 /\ key.info <= MAXARG_C
       THEN PE(P, Exp("VINDEXI", 0, 0, 0, t.info, key.info))
  ELSE LET R == luaK_reserveregs(P, 1)
           reg == F(P).freereg
       IN PE(luaK_code(R, Instr("LOADI", reg, key.info, "key")),
             Exp("VINDEXED", 0, 0, 0, t.info, reg))

(* safe_navigation for  v?[key]  *)
safe_navigation(P, v, form) ==
  IF ~Ok(P) THEN PE(P, NoExp)
  ELSE LET finish(P5, vreg, j, info) ==
             PE(luaK_patchtohere(IF info # vreg
                                 THEN luaK_code(P5, Instr("MOVE", vreg, NO_JUMP, "-"))
                                 ELSE P5,
                                 {j}),
                init_exp("VNONRELOC", vreg))
           get(I, vreg, j, old_free) ==
             IF ~Ok(I.P) THEN PE(I.P, NoExp)
             ELSE LET G == luaK_reserveregs(freeexp(I.P, init_exp("VNONRELOC", I.v.idx)), 1)
                      reg == F(G).freereg - 1
                      code == IF I.v.k = "VINDEXI" THEN Instr("GETI", reg, I.v.idx, "-")
                              ELSE IF I.v.k = "VINDEXSTR" THEN Instr("GETFIELD", reg, NO_JUMP, "-")
                              ELSE Instr("GETTABLE", reg, NO_JUMP, "-")
                  IN finish(SetF(luaK_code(G, code), [F(luaK_code(G, code)) EXCEPT !.freereg = old_free]),
                            vreg, j, reg)
           index(K, tv, j, old_free) ==
             IF ~Ok(K.P) THEN PE(K.P, NoExp)
             ELSE get(luaK_indexed_key(K.P, tv, K.v), tv.info, j, old_free)
           negate(K, tv, j, old_free) ==
             IF ~Ok(K.P) THEN PE(K.P, NoExp)
             ELSE IF K.v.k = "VKINT"
                  THEN index(PE(K.P, [K.v EXCEPT !.info = @ * (0 - 1)]), tv, j, old_free)
                  ELSE PE(Throw(K.P, "SafeNavOnNonNumeric", "-"), NoExp)
           key(P3, tv, j, old_free) ==
             IF form[1] = "-" THEN negate(keyexpr(P3, form), tv, j, old_free)
             ELSE index(keyexpr(P3, form), tv, j, old_free)
           test(R) ==
             IF ~Ok(R.P) THEN PE(R.P, NoExp)
             ELSE key(luaK_jump(luaK_code(R.P, Instr("TEST", R.v.info, NO_JUMP, "-")), "nav"),
                      R.v, PC(R.P) + 1, F(R.P).freereg)
       IN test(luaK_exp2nextreg(P, v))

(* local name = r?[key] *)
localstat_nav(P, name, r, form) ==
  LET activate(R) ==
        IF ~Ok(R.P) THEN R.P ELSE adjustlocalvars(adjust_assign(R.P, 1, 1, R.v), 1)
      nav(R) == safe_navigation(R.P, R.v, form)
  IN activate(nav(singlevar(new_localvar(P, name), r)))

(******************************* statements ********************************)
vkisindexed(k) == k \in {"VINDEXED", "VINDEXUP", "VINDEXI", "VINDEXSTR"}

(* check_conflict that looks at the table of an earlier target only *)
check_conflict_tables(P, lh, v) ==
  IF ~Ok(P) THEN PE(P, lh)
  ELSE LET extra == F(P).freereg
           uptab(e) == e.k = "VINDEXUP" /\ v.k = "VUPVAL" /\ e.t = v.info
           regtab(e) == vkisindexed(e.k) /\ e.k # "VINDEXUP" /\ v.k = "VLOCAL" /\ e.t = v.ridx
           safe(e) == IF uptab(e) THEN [e EXCEPT !.k = "VINDEXSTR", !.t = extra]
                      ELSE IF regtab(e) THEN [e EXCEPT !.t = extra] ELSE e
           conflict == \E i \in DOMAIN lh : uptab(lh[i]) \/ regtab(lh[i])
       IN IF conflict
          THEN PE(luaK_reserveregs(luaK_code(P, Instr("LOAD", extra, NO_JUMP, v.k)), 1),
                  [i \in DOMAIN lh |-> safe(lh[i])])
          ELSE PE(P, lh)

(* check_conflict: lh is the chain of the earlier targets, the first       *)
(* target first; the result carries the chain as the assignment will use   *)
(* it.                                                                     *)
check_conflict(P, lh, v) ==
  IF ~Ok(P) THEN PE(P, lh)
  ELSE LET extra == F(P).freereg
           uptab(e) == e.k = "VINDEXUP" /\ v.k = "VUPVAL" /\ e.t = v.info
           regtab(e) == vkisindexed(e.k) /\ e.k # "VINDEXUP" /\ v.k = "VLOCAL" /\ e.t = v.ridx
           regkey(e) == e.k = "VINDEXED" /\ v.k = "VLOCAL" /\ e.idx = v.ridx
           key(e) == IF regkey(e) THEN [e EXCEPT !.idx = extra] ELSE e
           safe(e) == IF uptab(e) THEN [e EXCEPT !.k = "VINDEXSTR", !.t = extra]
                      ELSE key(IF regtab(e) THEN [e EXCEPT !.t = extra] ELSE e)
           conflict == \E i \in DOMAIN lh : uptab(lh[i]) \/ regtab(lh[i]) \/ regkey(lh[i])
       IN IF conflict
          THEN PE(luaK_reserveregs(luaK_code(P, Instr("LOAD", extra, NO_JUMP, v.k)), 1),
                  [i \in DOMAIN lh |-> safe(lh[i])])
          ELSE PE(P, lh)

compoundassign(P, v, rhs) ==
  IF ~Ok(P) THEN P
  ELSE LET store(N) == luaK_storevar(N.P, v, N.v)
           fix(X) == store(IF v.k # "VLOCAL" THEN luaK_exp2nextreg(X.P, X.v) ELSE X)
           post(R, e1) == fix(luaK_posfix(R.P, e1, R.v))
           in(I) == post(expr(I.P, rhs), I.v)
       IN in(luaK_infix(IF v.k # "VLOCAL"
                        THEN luaK_reserveregs(P, F(P).freereg - F(P).nactvar)
                        ELSE P,
                        v))

(* exprstat/restassign for  target = rhs *)
(* restassign with as many values as targets: process_assign for a target  *)
(* that is a local, k being what explist left in prop                      *)
restassign_prop(P, lv, k) ==
  IF Ok(P) /\ lv.k = "VLOCAL" THEN process_assign(P, F(P).firstlocal + lv.vidx + 1, k) ELSE P

(* prop is not initialised in restassign: junk is what it holds when       *)
(* explist does not set it                                                 *)
assignstat(P, target, rhs, junk) ==
  LET store(R, lv) == luaK_storevar(restassign_prop(R.P, lv, exprprop(rhs, junk)), lv,
                                    luaK_setoneret(R.P, R.v))
      rest(L) == store(expr(check_readonly(L.P, L.v), rhs), L.v)
  IN rest(singlevar(P, target))

(* exprstat/restassign for  t1, t2 = k, k *)
multiassign(P, t1, t2) ==
  LET default(P1, lv) ==
        IF ~Ok(P1) THEN P1
        ELSE luaK_storevar(P1, lv, init_exp("VNONRELOC", F(P1).freereg - 1))
      explist(P0, lv1, lv2) ==
        default(luaK_storevar(restassign_prop(luaK_exp2nextreg(P0, init_exp("VKINT", 0)).P,
                                              lv2, exprprop("k", NoType)),
                              lv2, init_exp("VKINT", 0)),
                lv1)
      rest2(C, lv2) == explist(check_readonly(C.P, lv2), C.v[1], lv2)
      second(L2, lv1) == rest2(check_conflict(L2.P, <<lv1>>, L2.v), L2.v)
      rest1(L1) == second(singlevar(check_readonly(L1.P, L1.v), t2), L1.v)
  IN rest1(singlevar(P, t1))

(* exprstat/restassign for  t1, t2 op= rhs: the second restassign finds    *)
(* the operator with nvars = 2                                             *)
multicompound(P, t1, t2) ==
  LET tuple(Q) == IF Ok(Q) THEN Throw(Q, "UnsupportedTupleAssignment", "-") ELSE Q
      rest2(C, lv2) == tuple(check_readonly(C.P, lv2))
      second(L2, lv1) == rest2(check_conflict(L2.P, <<lv1>>, L2.v), L2.v)
      rest1(L1) == second(singlevar(check_readonly(L1.P, L1.v), t2), L1.v)
  IN rest1(singlevar(P, t1))

(* exprstat/restassign for  target op= rhs *)
compoundstat(P, target, rhs) ==
  LET rest(L) == compoundassign(check_readonly(L.P, L.v), L.v, rhs)
  IN rest(singlevar(P, target))

RECURSIVE newparams(_, _)
newparams(P, params) ==
  IF params = <<>> THEN P ELSE newparams(new_localvar(P, Head(params)), Tail(params))

parlist(P, params) ==
  LET reserve(P1) == IF ~Ok(P1) THEN P1 ELSE luaK_reserveregs(P1, F(P1).nactvar)
  IN reserve(adjustlocalvars(newparams(P, params), Len(params)))

(* body after the statement list: rethint is the declared return hint, p   *)
(* the kind the statement list left                                        *)
body_return(P, rethint, p) ==
  IF Ok(P) /\ rethint # NoType /\ p # NoType
  THEN [P EXCEPT !.warn = Append(@, [kind |-> "ReturnTypeMismatch", name |-> "-",
                                     hint |-> rethint, k |-> p])]
  ELSE P

(* retstat for  return [e] *)
retstat(P, e) ==
  LET first == luaY_nvarstack(P.actvar, F(P))
      ret(P1, reg) == luaK_code(P1, Instr("RETURN", reg, NO_JUMP, "return"))
      one(R) == ret(R.P, R.v.info)
      value(E) == IF E.v.k = "VCALL" THEN ret(E.P, first) ELSE one(luaK_exp2anyreg(E.P, E.v))
  IN IF ~Ok(P) THEN P
     ELSE IF e = "none" THEN ret(P, first)
     ELSE value(expr(P, e))

(* body up to the statement list *)
body_open(P, ismethod, params) ==
  LET self(P1) == IF ismethod THEN adjustlocalvars(new_localvar(P1, "self"), 1) ELSE P1
  IN parlist(self(open_func(P)), params)

codeclosure(P) ==
  IF ~Ok(P) THEN P
  ELSE LET parent == [P EXCEPT !.fs = Front(@)]
           back(Q) == [Q EXCEPT !.fs = Append(@, F(P))]
       IN back(luaK_reserveregs(luaK_code(parent, Instr("CLOSURE", F(parent).freereg, NO_JUMP, "-")), 1))

(* body from END on; the closure is left in the register the result names *)
body_close(P) ==
  IF ~Ok(P) THEN PE(P, NoExp)
  ELSE PE(close_func(codeclosure(P)), init_exp("VNONRELOC", P.fs[Len(P.fs) - 1].freereg))

fieldsel(P, v) ==
  LET index(N) == PE(N.P, Exp("VINDEXSTR", 0, 0, 0, N.v.info, 0))
  IN IF v.k = "VLOCAL" THEN PE(P, Exp("VINDEXSTR", 0, 0, 0, v.ridx, 0))
     ELSE IF v.k = "VUPVAL" THEN PE(P, Exp("VINDEXUP", 0, 0, 0, v.info, 0))
     ELSE index(luaK_exp2nextreg(P, v))

funcname(P, name, ismethod) ==
  LET field(R) == IF ismethod THEN fieldsel(R.P, R.v) ELSE R
  IN field(singlevar(P, name))

(* suffixedexp for  t[key]: the table goes to a register unless it is an  *)
(* upvalue, the key is parsed, and luaK_indexed puts an upvalue table with *)
(* a key that is no string constant and the key into registers             *)
yindexed(P, v, key) ==
  LET index(I, tv) == PE(I.P, Exp("VINDEXED", 0, 0, 0, tv.info, I.v.info))
      const(P1, tv) == PE(P1, Exp("VINDEXI", 0, 0, 0, tv.info, 0))
      indexed(T, kv) == IF vkisconst(kv.k) THEN const(T.P, T.v)
                        ELSE index(luaK_exp2anyreg(T.P, kv), T.v)
      table(K, tv) == indexed(luaK_exp2anyreg(K.P, tv), K.v)
      yindex(T) == table(expr(T.P, key), T.v)
  IN IF ~Ok(P) THEN PE(P, NoExp)
     ELSE yindex(IF v.k = "VUPVAL" THEN PE(P, v) ELSE luaK_exp2anyreg(P, v))

(* suffixedexp for a target: form is <<name, "-">> for name, <<name, "f">> *)
(* for name.f, <<name, key>> for name[key]                                 *)
suffixedexp(P, form) ==
  LET suffix(R) == IF form[2] = "-" THEN R
                   ELSE IF form[2] = "f" THEN fieldsel(R.P, R.v)
                   ELSE yindexed(R.P, R.v, form[2])
  IN suffix(singlevar(P, form[1]))

(* restassign for the target that follows a comma: lh is the chain of the  *)
(* targets before it                                                       *)
restassign_next(P, lh, form) ==
  LET rest(C, nv) == PE(check_readonly(C.P, nv), Append(C.v, nv))
      conflict(L) == rest(IF vkisindexed(L.v.k) THEN PE(L.P, lh)
                          ELSE check_conflict(L.P, lh, L.v),
                          L.v)
  IN conflict(suffixedexp(P, form))

(* explist for as many literals as there are targets, the last one left    *)
(* open                                                                    *)
RECURSIVE explist_literals(_, _)
explist_literals(P, n) ==
  IF n <= 1 THEN P ELSE explist_literals(luaK_exp2nextreg(P, init_exp("VKINT", 0)).P, n - 1)

(* the default assignments of the restassign calls that return *)
RECURSIVE restassign_default(_, _, _)
restassign_default(P, lh, i) ==
  IF i = 0 \/ ~Ok(P) THEN P
  ELSE restassign_default(luaK_storevar(P, lh[i], init_exp("VNONRELOC", F(P).freereg - 1)),
                          lh, i - 1)

(* restassign from '=' on: as many values as targets *)
restassign_explist(P, lh) ==
  restassign_default(luaK_storevar(restassign_prop(explist_literals(P, Len(lh)), lh[Len(lh)],
                                                   exprprop("k", NoType)),
                                   lh[Len(lh)], init_exp("VKINT", 0)),
                     lh, Len(lh) - 1)

(**************************** control structures ***************************)
(* block(): the block a body is parsed in *)
block_open(P) == enterblock(P, FALSE)

(* whilestat up to the body; the frame keeps whileinit and condexit *)
while_open(P) == block_open(enterblock(cond(P, "cond"), TRUE))

while_close(P, whileinit, condexit) ==
  LET continues(P1) == IF Ok(P1) THEN luaK_patchlist(P1, B(P1).scopeend, whileinit) ELSE P1
  IN luaK_patchtohere(
       leaveblock(continues(luaK_code(leaveblock(P), Instr("JMP", 0, whileinit, "loop")))),
       condexit)

(* repeatstat up to the body; the frame keeps repeat_init *)
repeat_open(P) == enterblock(enterblock(P, TRUE), FALSE)

repeat_close(P, repeat_init) ==
  IF ~Ok(P) THEN P
  ELSE LET bl1 == F(P).bl[Len(F(P).bl) - 1]
           bl2 == B(P)
           again(Y, exit) ==
             luaK_patchlist(luaK_patchtohere(Y, {exit}), {PC(Y) - 1}, repeat_init)
           fix(X, exit) ==
             again(luaK_jump(luaK_code(X, Instr("CLOSE", reglevel(X.actvar, F(X), bl2.nactvar),
                                                NO_JUMP, "repeat")),
                             "cond"),
                   exit)
           loop(P2, condexit) ==
             IF ~Ok(P2) THEN P2
             ELSE leaveblock(IF bl2.upval
                             THEN fix(luaK_patchtohere(luaK_jump(P2, "exit"), {condexit}), PC(P2))
                             ELSE luaK_patchlist(P2, {condexit}, repeat_init))
           scope(P1) == loop(leaveblock(P1), PC(P1) - 1)
       IN scope(cond(luaK_patchtohere(P, bl1.scopeend), "cond"))

(* exp1: an expression put in the next register *)
exp1(P) == luaK_exp2nextreg(P, init_exp("VKINT", 0)).P

(* forbody up to the body; returns the state, prep is the pc before it *)
forbody_open(P, base, nvars, isgen) ==
  block_open(luaK_reserveregs(
    adjustlocalvars(
      enterblock(luaK_code(P, Instr(IF isgen THEN "TFORPREP" ELSE "FORPREP", base, NO_JUMP, "-")),
                 FALSE),
      nvars),
    nvars))

forbody_close(P, base, prep, isgen) ==
  LET loop(P3) ==
        luaK_code(IF isgen THEN luaK_code(P3, Instr("TFORCALL", base, NO_JUMP, "-")) ELSE P3,
                  Instr(IF isgen THEN "TFORLOOP" ELSE "FORLOOP", base, prep + 1, "-"))
      continues(P2) == IF Ok(P2) THEN luaK_patchtohere(P2, B(P2).scopeend) ELSE P2
      fixprep(P1) == luaK_patchlist(P1, {prep}, PC(P1))
  IN loop(continues(fixprep(leaveblock(leaveblock(P)))))

(* forstat/fornum for  for name = k, k do *)
fornum_open(P, varname) ==
  LET state(P0) == new_localvar(new_localvar(new_localvar(P0, "(for state)"), "(for state)"),
                                "(for state)")
      step(P2) == IF Ok(P2)
                  THEN luaK_reserveregs(luaK_code(P2, Instr("LOAD", F(P2).freereg, NO_JUMP, "VKINT")), 1)
                  ELSE P2
  IN adjustlocalvars(step(exp1(exp1(new_localvar(state(enterblock(P, TRUE)), varname)))), 3)

(* forstat/forlist for  for name in f() do *)
forlist_open(P, indexname) ==
  LET state(P0) == new_localvar(new_localvar(new_localvar(new_localvar(P0, "(for state)"),
                                                          "(for state)"), "(for state)"),
                                "(for state)")
      checkstack(P2) ==
        IF ~Ok(P2) THEN P2
        ELSE IF F(P2).freereg + 3 > F(P2).maxstack
             THEN IF F(P2).freereg + 3 >= MAXREGS THEN Throw(P2, "TooManyRegisters", "-")
                  ELSE SetF(P2, [F(P2) EXCEPT !.maxstack = F(P2).freereg + 3])
             ELSE P2
      control(E) == marktobeclosed(adjustlocalvars(adjust_assign(E.P, 4, 1, E.v), 4))
  IN checkstack(control(expr(new_localvar(state(enterblock(P, TRUE)), indexname), "f")))

(* test_then_block up to the 'then' part.  mode "reg" is the regular case, *)
(* "brkfollow" is  if c then break  followed by a block end, "brkstat" the *)
(* same followed by a statement.  jf is the jump that skips the 'then'     *)
(* part.                                                                   *)
test_then_open(P, mode) ==
  LET brk(P1) == IF mode = "brkfollow" THEN [P |-> leaveblock(P1), jf |-> {}]
                 ELSE [P |-> luaK_jump(P1, "cond"), jf |-> {PC(P1)}]
  IN IF ~Ok(P) THEN [P |-> P, jf |-> {}]
     ELSE IF mode = "reg"
          THEN [P |-> enterblock(cond(P, "cond"), FALSE), jf |-> {PC(P) + 1}]
          ELSE brk(newgotoentry(enterblock(cond(P, "break"), FALSE), "break", PC(P) + 1))

(* test_then_block after the 'then' part; more tells that else or elseif   *)
(* follows.  Returns the state and the escape list.                        *)
test_then_close(P, escapelist, jf, more) ==
  LET skip(P1) ==
        [P |-> luaK_patchtohere(IF more THEN luaK_jump(P1, "esc") ELSE P1, jf),
         esc |-> IF more /\ Ok(P1) THEN escapelist \cup {PC(P1)} ELSE escapelist]
  IN skip(leaveblock(P))

(* switchstat up to the first case; the frame keeps the register of the    *)
(* control value                                                           *)
switch_open(P, ctrl) ==
  LET save(N) == [P |-> enterblock(adjustlocalvars(new_localvar(N.P, "(switch)"), 1), TRUE),
                  reg |-> N.v.info]
      value(E) == save(luaK_exp2nextreg(E.P, luaK_setoneret(E.P, E.v)))
  IN value(expr(P, ctrl))

(* one 'case k:' of switchstat up to its statements *)
case_open(P, reg) ==
  LET test(P1) ==
        luaK_jump(luaK_code(IF Ok(P1)
                            THEN [P1 EXCEPT !.res = Append(@, Seen(P1, Exp("VLOCAL", reg, 0, reg, 0, 0)))]
                            ELSE P1,
                            Instr("EQ", reg, NO_JUMP, "-")),
                  "case")
  IN test(enterblock(P, FALSE))

(* the end of a case that jumps over the next test whenever another        *)
(* clause follows, a default clause too                                    *)
case_close_jump(P, test, next) ==
  LET fall(P1) == IF next # "end" THEN luaK_code(P1, Instr("JMP", 0, PC(P1) + 3, "fall")) ELSE P1
  IN luaK_patchtohere(fall(leaveblock(P)), test)

(* switchstat after the statements of a case: next is the token that ended *)
(* them                                                                    *)
case_close(P, test, next) ==
  LET fall(P1) == IF next = "case" THEN luaK_code(P1, Instr("JMP", 0, PC(P1) + 3, "fall")) ELSE P1
  IN luaK_patchtohere(fall(leaveblock(P)), test)

(************************** the machine ************************************)
Cur ==
  [fs |-> fs, actvar |-> actvar, label |-> label, gt |-> gt, status |-> status,
   err |-> err, res |-> <<>>, afail |-> afail, warn |-> <<>>, protos |-> protos]

Commit(Q, c, l, o) ==
  /\ fs' = Q.fs
  /\ actvar' = Q.actvar
  /\ label' = Q.label
  /\ gt' = Q.gt
  /\ status' = Q.status
  /\ err' = Q.err
  /\ res' = Q.res
  /\ afail' = Q.afail
  /\ warn' = Q.warn
  /\ protos' = Q.protos
  /\ cs' = IF Q.status = "error" THEN cs ELSE c
  /\ la' = IF Q.status = "error" THEN la ELSE l
  /\ fuel' = IF o.k = "stat" THEN fuel - 1 ELSE fuel
  /\ op' = o

Op(name, arg, k) == [name |-> name, arg |-> arg, k |-> k]
Push(k, i1, i2, l1, l2) == Append(cs, Frame(k, i1, i2, l1, l2, NoExp))
Top == cs[Len(cs)]

(* What the tokens already looked at allow next (la): "follow" a block-end *)
(* token (else, elseif, end, end of chunk), "nofollow" anything else,      *)
(* "nobreak" anything but break, "any" anything.                           *)
CanStat == status = "parsing" /\ la \notin {"follow", "until"} /\ fuel > 0
CanOpen == CanStat /\ Len(cs) < MaxDepth
CanFollow == status = "parsing" /\ la # "nofollow"
CanClose == status = "parsing" /\ la # "follow"

InitWith(n) ==
  /\ fs = MainOpen.fs
  /\ actvar = <<>>
  /\ label = <<>>
  /\ gt = <<>>
  /\ status = "parsing"
  /\ err = NoErr
  /\ res = <<>>
  /\ afail = {}
  /\ warn = <<>>
  /\ protos = <<>>
  /\ cs = <<Frame("main", 0, 0, {}, {}, NoExp)>>
  /\ la = "any"
  /\ fuel = n
  /\ op = Op("init", "-", "-")

(* do ... end *)
DoBegin ==
  /\ CanOpen
  /\ Commit(enterblock(Cur, FALSE), Push("do", 0, 0, {}, {}), "any", Op("do", "-", "stat"))

DoEnd ==
  /\ CanFollow /\ Top.k = "do"
  /\ Commit(statement_end(leaveblock(Cur)), Front(cs), "any", Op("end", "do", "close"))

(* goto name *)
GotoStat(name) ==
  /\ CanStat
  /\ Commit(statement_end(gotostat(Cur, name)), cs, "any", Op("goto", name, "stat"))

(* ::name::, last telling whether only void statements and a block end     *)
(* follow                                                                  *)
LabelStat(name, last) ==
  /\ CanStat /\ la # "nofollow"
  /\ last => Top.k \in {"main", "func", "do", "while", "for", "if", "else", "case", "default"}
  /\ Commit(statement_end(labelstat(Cur, name, last)), cs,
            IF last THEN "follow" ELSE "nofollow", Op("label", <<name, last>>, "stat"))

(* ::name:: followed by the until of the repeat loop: block_follow(ls, 0)  *)
(* does not take until for the end of a block                              *)
LabelUntil(name) ==
  /\ CanStat /\ la # "nofollow" /\ Top.k = "repeat"
  /\ Commit(statement_end(labelstat(Cur, name, FALSE)), cs, "until",
            Op("label", <<name, FALSE, "until">>, "stat"))

(* end of the chunk: mainfunc closes the main function, luaY_parser        *)
(* returns                                                                 *)
EOS ==
  /\ CanFollow /\ Top.k = "main"
  /\ LET return(Q) == IF Ok(Q) THEN [Q EXCEPT !.status = "done"] ELSE Q
     IN Commit(return(close_func(Cur)), <<>>, "any", Op("eos", "-", "close"))

(* local name <attr> [= rhs] *)
LocalStat(name, attr, rhs) ==
  /\ CanStat
  /\ Commit(statement_end(localstat(Cur, name, attr, rhs)), cs, "any",
            Op("local", <<name, attr, rhs>>, "stat"))

(* local name = if c then e1 else e2 *)
LocalIfExpr(name, e1, e2) ==
  /\ CanStat
  /\ Commit(statement_end(localstat_ifexpr(Cur, name, e1, e2)), cs, "any",
            Op("localif", <<name, e1, e2>>, "stat"))

(* local name = r?[key] *)
LocalSafeNav(name, r, form) ==
  /\ CanStat
  /\ Commit(statement_end(localstat_nav(Cur, name, r, form)), cs, "any",
            Op("localnav", <<name, r, form>>, "stat"))

(* local name: tname <attr> [= rhs] *)
LocalHinted(name, tname, attr, rhs) ==
  /\ CanStat
  /\ Commit(statement_end(localstat_hint(Cur, name, tname, attr, rhs)), cs, "any",
            Op("localhint", <<name, tname, attr, rhs>>, "stat"))

(* target = rhs *)
AssignStat(target, rhs) ==
  /\ CanStat
  /\ \E junk \in Uninit :
       Commit(statement_end(assignstat(Cur, target, rhs, junk)), cs, "any",
            Op("assign", <<target, rhs>>, "stat"))

(* t1, t2 = k, k *)
MultiAssign(t1, t2) ==
  /\ CanStat
  /\ Commit(statement_end(multiassign(Cur, t1, t2)), cs, "any",
            Op("massign", <<t1, t2>>, "stat"))

(* target += rhs *)
CompoundAssign(target, rhs) ==
  /\ CanStat
  /\ Commit(statement_end(compoundstat(Cur, target, rhs)), cs, "any",
            Op("cassign", <<target, rhs>>, "stat"))

(* t1, t2 += rhs *)
MultiCompound(t1, t2) ==
  /\ CanStat
  /\ Commit(statement_end(multicompound(Cur, t1, t2)), cs, "any",
            Op("mcassign", <<t1, t2>>, "stat"))

(* the first target of an assignment; the frame keeps the chain of targets *)
AssignFirst(form) ==
  /\ CanOpen
  /\ LET first(L) == Commit(check_readonly(L.P, L.v),
                            Append(cs, Frame("assign", 0, 0, {}, {}, <<L.v>>)), "follow",
                            Op("target", form, "stat"))
     IN first(suffixedexp(Cur, form))

(* , target *)
AssignNext(form) ==
  /\ status = "parsing" /\ Top.k = "assign" /\ Len(Top.v) < MaxTargets
  /\ LET next(C) == Commit(C.P, Append(Front(cs), Frame("assign", 0, 0, {}, {}, C.v)),
                           "follow", Op("nexttarget", form, "-"))
     IN next(restassign_next(Cur, Top.v, form))

(* = k, ..., k  with one value for each target *)
AssignRest ==
  /\ status = "parsing" /\ Top.k = "assign"
  /\ Commit(statement_end(restassign_explist(Cur, Top.v)), Front(cs), "any",
            Op("assign", Len(Top.v), "-"))

(* two or more targets followed by a token that is neither '=' nor a       *)
(* compound operator: every restassign call falls out of its branches      *)
AssignStop ==
  /\ status = "parsing" /\ Top.k = "assign" /\ Len(Top.v) >= 2
  /\ Commit(statement_end(restassign_default(Cur, Top.v, Len(Top.v))), Front(cs), "any",
            Op("assignstop", Len(Top.v), "-"))

(* name() *)
CallStat(name) ==
  /\ CanStat
  /\ Commit(statement_end(callexpr(Cur, name).P), cs, "any", Op("call", name, "stat"))

(* local function name(params) *)
LocalFuncBegin(name, params) ==
  /\ CanOpen /\ Len(fs) < MaxFuncs
  /\ Commit(body_open(adjustlocalvars(new_localvar(Cur, name), 1), FALSE, params),
            Append(cs, Frame("func", 0, 0, {}, {}, NoExp)), "any",
            Op("localfunction", name, "stat"))

(* function name(params)  and  function name:m(params) *)
FuncStatBegin(name, ismethod, params) ==
  /\ CanOpen /\ Len(fs) < MaxFuncs
  /\ LET open(N) == Commit(body_open(N.P, ismethod, params),
                           Append(cs, Frame("func", 1, 0, {}, {}, N.v)), "any",
                           Op("function", name, "stat"))
     IN open(funcname(Cur, name, ismethod))

(* local function name(): tname  -- the frame keeps the return hint and   *)
(* the p of body, which the statement list of the body may set             *)
LocalFuncHinted(name, tname) ==
  /\ CanOpen /\ Len(fs) < MaxFuncs /\ tname \in TypeNames \cup {"-"}
  /\ Commit(body_open(adjustlocalvars(new_localvar(Cur, name), 1), FALSE, <<>>),
            Append(cs, [Frame("func", 0, 0, {}, {}, NoExp) EXCEPT !.ret.hint = gettypehint(tname)]),
            "any", Op("localfunctionhint", <<name, tname>>, "stat"))

(* return [e]  in the statement list of a function body or of the chunk;   *)
(* statlist hands its prop to retstat                                      *)
ReturnStat(e) ==
  /\ CanStat /\ Top.k \in {"func", "main"}
  /\ Commit(statement_end(retstat(Cur, e)),
            [cs EXCEPT ![Len(cs)].ret.p = IF Top.ret.live THEN exprprop(e, @) ELSE @],
            "follow", Op("return", e, "stat"))

(* if c then return e end  in the statement list of a function body or of  *)
(* the chunk: statlist hands the statement a p of its own, 0xFE, and drops *)
(* its prop when the statement has set it                                  *)
IfReturnStat(e) ==
  /\ CanStat /\ Top.k \in {"func", "main"}
  /\ LET end(C) == Commit(statement_end(luaK_patchtohere(C.P, C.esc)),
                          [cs EXCEPT ![Len(cs)].ret.live = @ /\ exprprop(e, "0xFE") = "0xFE"],
                          "any", Op("ifreturn", e, "stat"))
         then(T) == end(test_then_close(statement_end(retstat(T.P, e)), {}, T.jf, FALSE))
     IN then(test_then_open(Cur, "reg"))

(* end of a function body *)
FuncEnd ==
  /\ CanFollow /\ Top.k = "func"
  /\ LET store(C) == IF Top.i1 = 1 THEN luaK_storevar(check_readonly(C.P, Top.v), Top.v, C.v)
                     ELSE C.P
     IN Commit(statement_end(store(body_close(body_return(Cur, Top.ret.hint, Top.ret.p)))),
               Front(cs), "any",
               Op("end", "function", "close"))

(* break; atend tells that it is the break before the end of a default    *)
(* list, which caselist skips                                              *)
BreakStat(atend) ==
  /\ CanStat /\ la # "nobreak"
  /\ atend => Top.k = "default"
  /\ IF atend THEN Commit(Cur, cs, "follow", Op("break", "skipped", "stat"))
     ELSE Commit(statement_end(breakstat(Cur)), cs, "any", Op("break", "-", "stat"))

(* continue [n] *)
ContinueStat(n) ==
  /\ CanStat
  /\ IF Top.k \in {"case", "default"}
     THEN Commit(Throw(Cur, "ContinueInCase", "continue"), cs, "any", Op("continue", n, "stat"))
     ELSE Commit(statement_end(continuestat(Cur, n)), cs, "any", Op("continue", n, "stat"))

(* while c do *)
WhileBegin ==
  /\ CanOpen
  /\ Commit(while_open(Cur), Push("while", Len(Last(fs).code), 0, {Len(Last(fs).code) + 1}, {}),
            "any", Op("while", "-", "stat"))

WhileEnd ==
  /\ CanFollow /\ Top.k = "while"
  /\ Commit(statement_end(while_close(Cur, Top.i1, Top.l1)), Front(cs), "any",
            Op("end", "while", "close"))

(* repeat *)
RepeatBegin ==
  /\ CanOpen
  /\ Commit(repeat_open(Cur), Push("repeat", Len(Last(fs).code), 0, {}, {}), "any",
            Op("repeat", "-", "stat"))

(* until c *)
Until ==
  /\ CanClose /\ Top.k = "repeat"
  /\ Commit(statement_end(repeat_close(Cur, Top.i1)), Front(cs), "any",
            Op("until", "repeat", "close"))

(* for name = k, k do *)
ForNumBegin(name) ==
  /\ CanOpen
  /\ LET body(P1) == Commit(forbody_open(P1, Last(fs).freereg, 1, FALSE),
                            Push("for", Last(fs).freereg, PC(P1), {}, {}), "any",
                            Op("for", name, "stat"))
     IN body(fornum_open(Cur, name))

(* for name in f() do *)
ForListBegin(name) ==
  /\ CanOpen
  /\ LET body(P1) == Commit(forbody_open(P1, Last(fs).freereg, 1, TRUE),
                            Push("forin", Last(fs).freereg, PC(P1), {}, {}), "any",
                            Op("forin", name, "stat"))
     IN body(forlist_open(Cur, name))

ForEnd ==
  /\ CanFollow /\ Top.k \in {"for", "forin"}
  /\ Commit(statement_end(leaveblock(forbody_close(Cur, Top.i1, Top.i2, Top.k = "forin"))),
            Front(cs), "any", Op("end", "for", "close"))

(* the frame and the lookahead rule test_then_block leaves *)
ThenFrame(mode, esc, jf) ==
  Frame(IF mode = "brkfollow" THEN "ifx" ELSE "if", 0, 0, esc, jf, NoExp)
ThenLa(mode) ==
  IF mode = "brkfollow" THEN "follow" ELSE IF mode = "brkstat" THEN "nofollow" ELSE "nobreak"

(* if c then *)
IfBegin(mode) ==
  /\ CanOpen
  /\ LET then(T) == Commit(T.P, Append(cs, ThenFrame(mode, {}, T.jf)), ThenLa(mode),
                           Op("if", mode, "stat"))
     IN then(test_then_open(Cur, mode))

(* the 'then' part before else, elseif or end is closed, if one is open *)
ThenClose(more) ==
  IF Top.k = "if" THEN test_then_close(Cur, Top.l1, Top.l2, more)
  ELSE [P |-> Cur, esc |-> Top.l1]

(* elseif c then *)
ElseIf(mode) ==
  /\ CanFollow /\ Top.k \in {"if", "ifx"} /\ fuel > 0
  /\ LET then(T, esc) == Commit(T.P, Append(Front(cs), ThenFrame(mode, esc, T.jf)), ThenLa(mode),
                                Op("elseif", mode, "stat"))
         test(C) == then(test_then_open(C.P, mode), C.esc)
     IN test(ThenClose(TRUE))

(* else *)
Else ==
  /\ CanFollow /\ Top.k \in {"if", "ifx"}
  /\ LET else(C) == Commit(block_open(C.P), Append(Front(cs), Frame("else", 0, 0, C.esc, {}, NoExp)),
                           "any", Op("else", "-", "close"))
     IN else(ThenClose(TRUE))

(* end of an if statement *)
IfEnd ==
  /\ CanFollow /\ Top.k \in {"if", "ifx", "else"}
  /\ LET end(C) == Commit(statement_end(luaK_patchtohere(C.P, C.esc)), Front(cs), "any",
                          Op("end", "if", "close"))
     IN end(IF Top.k = "else" THEN [P |-> leaveblock(Cur), esc |-> Top.l1] ELSE ThenClose(FALSE))

(* switch ctrl do case k: *)
SwitchBegin(ctrl) ==
  /\ CanOpen
  /\ LET case(S) == Commit(case_open(S.P, S.reg), Push("case", S.reg, 0, {PC(S.P) + 1}, {}), "any",
                           Op("switch", ctrl, "stat"))
     IN case(switch_open(Cur, ctrl))

(* switch ctrl do default: | switch ctrl do end  -- the loop of switchstat  *)
(* tests for case before anything else and raises error_expected           *)
SwitchNoCase(ctrl, next) ==
  /\ CanOpen
  /\ LET case(P1) == IF Ok(P1) THEN Throw(P1, "ExpectedToken", "case") ELSE P1
     IN Commit(case(switch_open(Cur, ctrl).P), cs, "any",
               Op("switchnocase", <<ctrl, next>>, "stat"))

(* case k:  after another case *)
Case ==
  /\ CanClose /\ Top.k = "case" /\ fuel > 0
  /\ LET case(P1) == Commit(case_open(P1, Top.i1),
                            Append(Front(cs), Frame("case", Top.i1, 0, {PC(P1) + 1}, {}, NoExp)),
                            "any", Op("case", "-", "stat"))
     IN case(case_close(Cur, Top.l1, "case"))

(* default: *)
Default ==
  /\ CanClose /\ Top.k = "case"
  /\ Commit(enterblock(case_close(Cur, Top.l1, "default"), FALSE),
            Append(Front(cs), Frame("default", Top.i1, 0, {}, {}, NoExp)), "any",
            Op("default", "-", "close"))

(* end of a switch statement *)
SwitchEnd ==
  /\ CanFollow /\ Top.k \in {"case", "default"}
  /\ Commit(statement_end(leaveblock(IF Top.k = "case" THEN case_close(Cur, Top.l1, "end")
                                     ELSE leaveblock(Cur))),
            Front(cs), "any", Op("end", "switch", "close"))

(************************** specifications *********************************)
Labels == {"l"}

(* Scopes, labels and gotos: locals, goto, labels, break, do and while     *)
(* blocks, nested functions.                                               *)
InitScope == InitWith(FuelScope)
NextScope ==
  \/ \E n \in Names : LocalStat(n, "REG", "none")
  \/ \E l \in Labels : GotoStat(l)
  \/ \E l \in Labels, last \in BOOLEAN : LabelStat(l, last)
  \/ BreakStat(FALSE)
  \/ DoBegin
  \/ DoEnd
  \/ WhileBegin
  \/ WhileEnd
  \/ LocalFuncBegin("x", <<>>)
  \/ FuncEnd
  \/ EOS
SpecScope == InitScope /\ [][NextScope]_vars

(* Every statement and every block: the register level at the boundaries   *)
(* of statements.                                                          *)
Attribs == {"REG", "CONST", "TOCLOSE"}
IfModes == {"reg", "brkfollow", "brkstat"}
InitBlocks == InitWith(FuelBlocks)
NextBlocks ==
  \/ \E a \in Attribs, r \in {"none", "k", "f", "x"} : LocalStat("x", a, r)
  \/ \E t \in {"x", "g"}, r \in {"k", "f"} : AssignStat(t, r)
  \/ MultiAssign("x", "g")
  \/ \E t \in {"x", "g"}, r \in {"k", "x"} : CompoundAssign(t, r)
  \/ CallStat("f")
  \/ \E l \in Labels : GotoStat(l)
  \/ \E l \in Labels, last \in BOOLEAN : LabelStat(l, last)
  \/ \E e \in BOOLEAN : BreakStat(e)
  \/ ContinueStat(1)
  \/ DoBegin
  \/ DoEnd
  \/ WhileBegin
  \/ WhileEnd
  \/ RepeatBegin
  \/ Until
  \/ ForNumBegin("x")
  \/ ForListBegin("x")
  \/ ForEnd
  \/ \E m \in IfModes : IfBegin(m)
  \/ \E m \in IfModes : ElseIf(m)
  \/ Else
  \/ IfEnd
  \/ SwitchBegin("x")
  \/ Case
  \/ Default
  \/ SwitchEnd
  \/ \E ps \in {<<>>, <<"y">>} : LocalFuncBegin("x", ps)
  \/ \E m \in BOOLEAN : FuncStatBegin("x", m, <<"y">>)
  \/ FuncEnd
  \/ EOS
SpecBlocks == InitBlocks /\ [][NextBlocks]_vars

(* Loops: break, continue, the if-break shortcut, switch, and a nested     *)
(* function that captures a local of the loop body.                        *)
InitLoop == InitWith(FuelLoop)
NextLoop ==
  \/ LocalStat("x", "REG", "none")
  \/ CallStat("x")
  \/ \E e \in BOOLEAN : BreakStat(e)
  \/ ContinueStat(1)
  \/ WhileBegin
  \/ WhileEnd
  \/ RepeatBegin
  \/ Until
  \/ ForNumBegin("x")
  \/ ForEnd
  \/ \E m \in IfModes : IfBegin(m)
  \/ IfEnd
  \/ SwitchBegin("x")
  \/ \E t \in {"default", "end"} : SwitchNoCase("x", t)
  \/ Case
  \/ Default
  \/ SwitchEnd
  \/ LocalFuncBegin("x", <<>>)
  \/ FuncEnd
  \/ EOS
SpecLoop == InitLoop /\ [][NextLoop]_vars

(* Variables: declarations with attributes, the assignment forms,          *)
(* function statements and parameters.                                     *)
InitVar == InitWith(FuelVar)
NextVar ==
  \/ \E n \in Names, a \in Attribs, r \in {"none", "k"} : LocalStat(n, a, r)
  \/ \E t \in {"x", "y", "g"}, r \in {"k", "x"} : AssignStat(t, r)
  \/ \E t \in {"x", "g"} : MultiAssign(t, "y")
  \/ \E t \in {"x", "g"}, r \in {"k", "y"} : CompoundAssign(t, r)
  \/ \E t \in {"x", "g"} : MultiCompound(t, "y")
  \/ \E m \in BOOLEAN : FuncStatBegin("x", m, <<>>)
  \/ \E ps \in {<<>>, <<"x", "y">>} : LocalFuncBegin("x", ps)
  \/ FuncEnd
  \/ EOS
SpecVar == InitVar /\ [][NextVar]_vars

(* Longer programs over fewer forms: compile-time constants and compound   *)
(* assignment inside loops, continue before and after a capture.           *)
InitDeep == InitWith(FuelDeep)
NextDeep ==
  \/ \E a \in {"REG", "CONST"}, r \in {"none", "k"} : LocalStat("x", a, r)
  \/ \E t \in {"x", "g"} : CompoundAssign(t, "y")
  \/ CallStat("x")
  \/ ContinueStat(1)
  \/ WhileBegin
  \/ WhileEnd
  \/ RepeatBegin
  \/ Until
  \/ ForNumBegin("y")
  \/ ForEnd
  \/ IfBegin("reg")
  \/ IfEnd
  \/ LocalFuncBegin("x", <<>>)
  \/ FuncEnd
  \/ EOS
SpecDeep == InitDeep /\ [][NextDeep]_vars

(* continue with a count, in loops, switch clauses and nested functions.   *)
InitContinue == InitWith(FuelContinue)
NextContinue ==
  \/ \E n \in 0..2 : ContinueStat(n)
  \/ WhileBegin
  \/ WhileEnd
  \/ RepeatBegin
  \/ Until
  \/ IfBegin("reg")
  \/ IfEnd
  \/ SwitchBegin("x")
  \/ Default
  \/ SwitchEnd
  \/ LocalFuncBegin("x", <<>>)
  \/ FuncEnd
  \/ EOS
SpecContinue == InitContinue /\ [][NextContinue]_vars

(* Blocks with captured locals: do blocks, generic for loops with break,   *)
(* nested function bodies.                                                 *)
InitClose == InitWith(FuelClose)
NextClose ==
  \/ LocalStat("x", "REG", "none")
  \/ CallStat("x")
  \/ BreakStat(FALSE)
  \/ DoBegin
  \/ DoEnd
  \/ ForListBegin("y")
  \/ ForEnd
  \/ LocalFuncBegin("x", <<>>)
  \/ FuncEnd
  \/ EOS
SpecClose == InitClose /\ [][NextClose]_vars

(* Name resolution across function levels: regular and constant locals,    *)
(* parameters, globals, functions nested two deep.                         *)
InitCapture == InitWith(FuelCapture)
NextCapture ==
  \/ \E n \in Names, a \in {"REG", "CONST"}, r \in {"none", "k"} : LocalStat(n, a, r)
  \/ \E n \in {"x", "y", "g"} : CallStat(n)
  \/ \E ps \in {<<>>, <<"y">>} : LocalFuncBegin("x", ps)
  \/ FuncEnd
  \/ EOS
SpecCapture == InitCapture /\ [][NextCapture]_vars

(* Long runs of declarations, up to the limit of local variables: a        *)
(* function may start with a compile-time constant or a numeric for loop,  *)
(* and one function may be nested near the start of the main function.     *)
InitLimit == InitWith(FuelLimit)
NextLimit ==
  \/ LocalStat("x", "REG", "none")
  \/ (Last(fs).nactvar = 0 /\ LocalStat("x", "CONST", "k"))
  \/ (Last(fs).nactvar <= 1 /\ Len(Last(fs).bl) = 1 /\ ForNumBegin("y"))
  \/ (Len(fs) < 2 /\ Len(actvar) <= 2 /\ LocalFuncBegin("x", <<>>))
SpecLimit == InitLimit /\ [][NextLimit]_vars

(* Pending gotos carried out of blocks: do blocks and while loops with     *)
(* regular and constant locals, captured or not.                           *)
InitGoto == InitWith(FuelGoto)
NextGoto ==
  \/ \E a \in {"REG", "CONST"} : LocalStat("x", a, "k")
  \/ (Len(fs) > 1 /\ CallStat("x"))
  \/ GotoStat("l1")
  \/ (cs # <<>> /\ Top.k = "while" /\ BreakStat(FALSE))
  \/ DoBegin
  \/ DoEnd
  \/ WhileBegin
  \/ WhileEnd
  \/ (Len(fs) = 1 /\ Len(actvar) > 0 /\ LocalFuncBegin("y", <<>>))
  \/ FuncEnd
  \/ EOS
SpecGoto == InitGoto /\ [][NextGoto]_vars

(* Labels at the end of a block and in its middle: do blocks and repeat    *)
(* loops, gotos before and after declarations.                             *)
InitLabel == InitWith(FuelLabel)
NextLabel ==
  \/ \E n \in Names : LocalStat(n, "REG", "none")
  \/ GotoStat("l1")
  \/ \E last \in BOOLEAN : LabelStat("l1", last)
  \/ LabelUntil("l1")
  \/ DoBegin
  \/ DoEnd
  \/ RepeatBegin
  \/ Until
  \/ EOS
SpecLabel == InitLabel /\ [][NextLabel]_vars

(* if expressions over literals, locals, upvalues and globals.             *)
InitIfExpr == InitWith(FuelIfExpr)
NextIfExpr ==
  \/ \E n \in Names : LocalStat(n, "REG", "k")
  \/ \E n \in Names, e1 \in {"k", "x", "g"}, e2 \in {"k", "y", "g"} : LocalIfExpr(n, e1, e2)
  \/ DoBegin
  \/ DoEnd
  \/ LocalFuncBegin("y", <<>>)
  \/ FuncEnd
  \/ EOS
SpecIfExpr == InitIfExpr /\ [][NextIfExpr]_vars

(* Compound assignment to a global below compile-time constants and the    *)
(* variables of a numeric for loop.                                        *)
InitWatermark == InitWith(FuelWatermark)
NextWatermark ==
  \/ \E a \in {"REG", "CONST"} : LocalStat("x", a, "k")
  \/ \E t \in {"x", "g"} : CompoundAssign(t, "y")
  \/ ForNumBegin("y")
  \/ ForEnd
  \/ EOS
SpecWatermark == InitWatermark /\ [][NextWatermark]_vars

(* Safe navigation with integer and string keys, plain and after a unary   *)
(* minus, on locals and globals.                                           *)
KeyForms == ({"+", "-"} \X {"int"} \X (0..MaxKey)) \cup ({"+", "-"} \X {"str"} \X {0})
InitSafeNav == InitWith(FuelSafeNav)
NextSafeNav ==
  \/ \E n \in Names : LocalStat(n, "REG", "k")
  \/ \E n \in Names, r \in {"x", "g"}, form \in KeyForms : LocalSafeNav(n, r, form)
  \/ EOS
SpecSafeNav == InitSafeNav /\ [][NextSafeNav]_vars

(* Multiple assignment target by target: locals, upvalues and globals,     *)
(* plain, with a field and with a register key.  The assignment is the     *)
(* last statement of the input.                                            *)
Targets == {<<"x", "-">>, <<"x", "f">>, <<"y", "x">>, <<"g", "-">>}
InitAssign == InitWith(FuelAssign)
NextAssign ==
  \/ \E n \in Names : LocalStat(n, "REG", "none")
  \/ (fuel = 1 /\ \E t \in Targets : AssignFirst(t))
  \/ \E t \in Targets : AssignNext(t)
  \/ AssignRest
  \/ AssignStop
  \/ LocalFuncBegin("x", <<>>)
  \/ FuncEnd
  \/ EOS
SpecAssign == InitAssign /\ [][NextAssign]_vars

(* Type hints: hinted locals, plain assignment, functions with a return    *)
(* hint and return statements.                                             *)
Hints == {"-", "number", "string"}
InitTypes == InitWith(FuelTypes)
NextTypes ==
  \/ \E t \in Hints, a \in {"REG", "CONST"}, r \in {"none", "k", "g"} : LocalHinted("x", t, a, r)
  \/ \E r \in {"k", "g"} : AssignStat("x", r)
  \/ \E t \in Hints : LocalFuncHinted("y", t)
  \/ \E e \in {"none", "k", "g"} : ReturnStat(e)
  \/ \E e \in {"k", "g"} : IfReturnStat(e)
  \/ FuncEnd
  \/ EOS
SpecTypes == InitTypes /\ [][NextTypes]_vars

(****************************** properties *********************************)
CurF == fs[Len(fs)]
CurB == CurF.bl[Len(CurF.bl)]
AllCode == {protos[i].code : i \in 1..Len(protos)}
HasInstr(c, o, k) == \E i \in 1..Len(c) : c[i].op = o /\ c[i].k = k

(* C1: when luaY_parser has returned successfully, the pending-goto list,  *)
(* the label list and the active-variable stack are all empty.             *)
C1_ListsEmptyOnReturn ==
  status = "done" => (Len(gt) = 0 /\ Len(label) = 0 /\ Len(actvar) = 0)

(* a chunk with a local declaration and a resolved goto has been parsed *)
C1_Witness ==
  /\ status = "done"
  /\ \E c \in AllCode : HasInstr(c, "LOADNIL", "-") /\ HasInstr(c, "JMP", "goto")

C3_ContinueClosesUpvalues ==
  \A d \in 1..Len(fs) : \A b \in 1..Len(fs[d].bl) : \A e \in 1..(b - 1) :
    fs[d].bl[b].upval =>
      \A pc \in fs[d].bl[e].scopeend :
        pc >= fs[d].bl[b].startpc => (pc > 0 /\ fs[d].code[pc].op = "CLOSE")

(* C4: no store to a local or to an upvalue is emitted whose destination   *)
(* was declared with an attribute (const, close, compile-time constant).   *)
(* Each store instruction carries the kind its destination was declared    *)
(* with.                                                                   *)
OpenCode == {fs[d].code : d \in 1..Len(fs)}
C4_NoStoreToReadOnly ==
  \A c \in OpenCode \cup AllCode : \A p \in 1..Len(c) :
    c[p].op \in {"SETLOCAL", "SETUPVAL"} => c[p].k = "REG"

(* an assignment in a nested function to a captured variable that is not   *)
(* regular was refused                                                     *)
C4_Witness ==
  /\ status = "error" /\ err.kind = "AssignToConst"
  /\ Len(fs) > 1
  /\ \E u \in 1..Len(CurF.ups) : CurF.ups[u].name = err.name /\ CurF.ups[u].kind # "REG"

(* C5: no two entries of the upvalue table of a function have the same     *)
(* name, for the functions being parsed and for the finished ones.         *)
Distinct(ups) == \A i, j \in 1..Len(ups) : ups[i].name = ups[j].name => i = j
C5_UpvalueNamesDistinct ==
  /\ \A d \in 1..Len(fs) : Distinct(fs[d].ups)
  /\ \A i \in 1..Len(protos) : Distinct(protos[i].ups)

(* in a nested function one statement resolved a name twice to the same    *)
(* upvalue entry, next to the entry of _ENV                                *)
C5_Witness ==
  /\ status = "parsing" /\ Len(fs) > 1 /\ Len(CurF.ups) > 1
  /\ \E i, j \in 1..Len(res) :
       i < j /\ res[i].k = "VUPVAL" /\ res[j].k = "VUPVAL" /\ res[i].info = res[j].info

(* C6: every name resolved to a local of the current function by the last  *)
(* statement had its compiler index below nactvar and its register below   *)
(* freereg at that moment.                                                 *)
C6_LocalBelowLevels ==
  \A i \in 1..Len(res) :
    res[i].k = "VLOCAL" => (res[i].vidx < res[i].nactvar /\ res[i].ridx < res[i].freereg)

(* C7: a label is reached while a goto to it is pending in its block and   *)
(* a local was declared after that goto.                                   *)
C7_Pending(i) ==
  /\ i > CurB.firstgoto
  /\ gt[i].name = op'.arg[1]
  /\ gt[i].nactvar < CurF.nactvar
C7_Case ==
  /\ status = "parsing" /\ op'.name = "label"
  /\ \E i \in 1..Len(gt) : C7_Pending(i)
C7_First == SetMin({i \in 1..Len(gt) : C7_Pending(i)})
C7_Error ==
  /\ status' = "error"
  /\ err' = [kind |-> "JumpIntoScope",
             name |-> getlocalvardesc(actvar, CurF, gt[C7_First].nactvar).name]
  /\ fs' = fs /\ gt' = gt
C7_Resolved ==
  /\ status' = "parsing"
  /\ \A i \in 1..Len(gt') : ~(i > CurB.firstgoto /\ gt'[i].name = op'.arg[1])
  /\ \A i \in 1..Len(gt) :
       (i > CurB.firstgoto /\ gt[i].name = op'.arg[1])
         => fs'[Len(fs)].code[gt[i].pc + 1].j = Len(CurF.code)

(* C7 as stated: the label always fails with JumpIntoScope naming the      *)
(* first local declared after the goto, and no jump is patched.            *)
C7_AlwaysJumpIntoScope == [][C7_Case => C7_Error]_vars

(* C7 amended: it fails so when a statement follows the label in its       *)
(* block; when the label is the last statement of the block, the label     *)
(* takes the level of the block entry and the goto is resolved to it.      *)
C7_JumpIntoScopeUnlessLast ==
  [][C7_Case => IF op'.arg[2] THEN C7_Resolved ELSE C7_Error]_vars

C7_Witness ==
  /\ status = "error" /\ err.kind = "JumpIntoScope" /\ op.name = "label"
  /\ err.name \in Names

(* C8: the outermost block of a function is closed while gotos of that     *)
(* function are pending.                                                   *)
C8_Case ==
  /\ status = "parsing" /\ op'.name \in {"eos", "end"} /\ Len(CurF.bl) = 1
  /\ Len(gt) > CurF.bl[1].firstgoto
C8_Pending(i) == i > CurF.bl[1].firstgoto /\ i <= Len(gt)
C8_FirstPending == gt[CurF.bl[1].firstgoto + 1]

(* C8 as stated: every pending break gives BreakOutsideLoop and every      *)
(* other pending goto gives UndefinedLabel.                                *)
C8_EveryPendingReported ==
  [][C8_Case =>
       /\ status' = "error"
       /\ \A i \in 1..Len(gt) :
            C8_Pending(i) =>
              err'.kind = IF gt[i].name = "break" THEN "BreakOutsideLoop" ELSE "UndefinedLabel"]_vars

(* C8 amended: the parse fails with the error of the first pending goto of *)
(* the function: BreakOutsideLoop if that is a break, UndefinedLabel with  *)
(* its name otherwise.                                                     *)
C8_FirstPendingReported ==
  [][C8_Case =>
       /\ status' = "error"
       /\ err' = IF C8_FirstPending.name = "break"
                 THEN [kind |-> "BreakOutsideLoop", name |-> "break"]
                 ELSE [kind |-> "UndefinedLabel", name |-> C8_FirstPending.name]]_vars

(* a break in a function body that is defined inside a loop of the         *)
(* enclosing function is reported when the body ends                       *)
C8_Witness ==
  /\ status = "error" /\ err.kind = "BreakOutsideLoop" /\ op.name = "end"
  /\ Len(fs) = 2
  /\ \E i \in 1..Len(fs[1].bl) : fs[1].bl[i].isloop

(* C9: the function a pending goto belongs to, and the innermost loop      *)
(* block of that function that encloses it (0 if there is none).           *)
C9_Owner(i) == SetMax({d \in 1..Len(fs) : fs[d].bl[1].firstgoto < i})
C9_Loop(i) ==
  SetMax({0} \cup {b \in 1..Len(fs[C9_Owner(i)].bl) :
                     fs[C9_Owner(i)].bl[b].isloop /\ fs[C9_Owner(i)].bl[b].firstgoto < i})
C9_StillPending(d, g) ==
  /\ fs'[d].code[g.pc + 1].j = NO_JUMP
  /\ \E k \in 1..Len(gt') :
       /\ gt'[k].name = "break" /\ gt'[k].pc = g.pc
       /\ k > fs'[d].bl[1].firstgoto
       /\ d < Len(fs') => k <= fs'[d + 1].bl[1].firstgoto
C9_ExitPc(d) ==
  LET c == fs'[d].code
  IN IF Len(c) > Len(fs[d].code) /\ c[Len(c)].op = "CLOSE" /\ c[Len(c)].k = "label"
     THEN Len(c) - 1 ELSE Len(c)
C9_PatchedToExit(d, g) ==
  /\ fs'[d].code[g.pc + 1].j = C9_ExitPc(d)
  /\ C9_ExitPc(d) >= Len(fs[d].code)
  /\ \A k \in 1..Len(gt') :
       (k > fs'[d].bl[1].firstgoto /\ (d < Len(fs') => k <= fs'[d + 1].bl[1].firstgoto))
         => gt'[k].pc # g.pc

(* C9: a break pending inside a loop block stays pending, its jump         *)
(* unpatched, as long as that block is open; the step that leaves the      *)
(* innermost enclosing loop block of its function patches the jump to the  *)
(* first instruction after the loop (the end of the code, or the Close the *)
(* exit label emits there) and removes it from the pending list.           *)
C9_BreakResolvedAtLoopExit ==
  [][\A i \in 1..Len(gt) :
       (gt[i].name = "break" /\ status' # "error" /\ C9_Loop(i) > 0) =>
         IF Len(fs'[C9_Owner(i)].bl) < C9_Loop(i)
         THEN C9_PatchedToExit(C9_Owner(i), gt[i])
         ELSE C9_StillPending(C9_Owner(i), gt[i])]_vars

(* an inner loop has just been left inside a loop that is still open, and  *)
(* a break of the shortcut form  if c then break  was patched to its exit  *)
C9_Witness ==
  /\ status = "parsing" /\ op.k = "close" /\ op.arg \in {"while", "for", "repeat"}
  /\ \E b \in 1..Len(CurF.bl) : CurF.bl[b].isloop
  /\ \E p \in 2..Len(CurF.code) :
       /\ CurF.code[p].op = "JMP" /\ CurF.code[p].k = "break"
       /\ CurF.code[p - 1].op = "TEST"
       /\ CurF.code[p].j \in {Len(CurF.code) - 1, Len(CurF.code)}
  /\ \A k \in 1..Len(gt) : gt[k].name # "break"

(* C10: in code emitted by a successful parse no jump of a continue is     *)
(* left unpatched.                                                         *)
C10_NoUnpatchedContinue ==
  status = "done" =>
    \A c \in AllCode : \A p \in 1..Len(c) :
      (c[p].op = "JMP" /\ c[p].k = "continue") => c[p].j # NO_JUMP

(* C11: a continue statement is parsed; the loop blocks of the current     *)
(* function, innermost last.                                               *)
C11_Case == status = "parsing" /\ op'.name = "continue"
C11_Loops == {b \in 1..Len(CurF.bl) : CurF.bl[b].isloop}
C11_InRange == 1 <= op'.arg /\ op'.arg <= Cardinality(C11_Loops)
C11_Nth == CHOOSE b \in C11_Loops : Cardinality({c \in C11_Loops : c >= b}) = op'.arg
C11_Fails == status' = "error" /\ fs' = fs
C11_Succeeds ==
  /\ status' = "parsing"
  /\ Len(fs') = Len(fs)
  /\ Len(fs'[Len(fs)].code) > Len(CurF.code)
  /\ Last(fs'[Len(fs)].code).op = "JMP" /\ Last(fs'[Len(fs)].code).k = "continue"
  /\ fs'[Len(fs)].bl[C11_Nth].scopeend =
       CurF.bl[C11_Nth].scopeend \cup {Len(fs'[Len(fs)].code) - 1}

C12_CodeAfter == IF Len(fs') < Len(fs) THEN Last(protos').code ELSE fs'[Len(fs)].code
C12_New == SubSeq(C12_CodeAfter, Len(CurF.code) + 1, Len(C12_CodeAfter))
C12_Closes == {p \in 1..Len(C12_New) : C12_New[p].op = "CLOSE"}
C12_Outside == reglevel(actvar, CurF, CurB.nactvar)
C12_DoEnd ==
  (op'.name = "end" /\ op'.arg = "do") =>
    C12_New = IF CurB.upval THEN <<Instr("CLOSE", C12_Outside, NO_JUMP, "block")>> ELSE <<>>
C12_LoopEnd ==
  (op'.name = "end" /\ op'.arg = "for" /\ CurF.bl[Len(CurF.bl) - 2].upval) =>
    \E p \in 1..Len(C12_New) :
      /\ C12_New[p].op = "TFORLOOP"
      /\ {q \in C12_Closes : q > p} = {Len(C12_New)}
      /\ \/ Last(C12_New).k = "label"
         \/ Last(C12_New) = Instr("CLOSE", reglevel(actvar, CurF, CurF.bl[Len(CurF.bl) - 2].nactvar),
                                   NO_JUMP, "block")
C12_BodyEnd ==
  (Len(fs') < Len(fs)) => (Len(CurF.bl) = 1 /\ C12_Closes = {})
C12_BodyEndCloses ==
  (Len(fs') < Len(fs) /\ CurB.upval) => C12_Closes # {}

C13_Case == status = "parsing" /\ op'.name = "call" /\ status' = "parsing"
C13_Levels ==
  IF searchvar(actvar, CurF, op'.arg).k # "NONE" THEN {}
  ELSE {d \in 1..(Len(fs) - 1) : searchvar(actvar, fs[d], op'.arg).k # "NONE"}
C13_Level == SetMax(C13_Levels)
C13_Var == searchvar(actvar, fs[C13_Level], op'.arg)
C13_Entries(d) == {i \in 1..Len(fs'[d].ups) : fs'[d].ups[i].name = op'.arg}
C13_Chain ==
  \A d \in (C13_Level + 1)..Len(fs) :
    \E i \in C13_Entries(d) :
      /\ fs'[d].ups[i].kind = getlocalvardesc(actvar, fs[C13_Level], C13_Var.vidx).kind
      /\ IF d = C13_Level + 1
         THEN fs'[d].ups[i].instack /\ fs'[d].ups[i].idx = C13_Var.ridx
         ELSE /\ ~fs'[d].ups[i].instack
              /\ \E j \in C13_Entries(d - 1) : fs'[d].ups[i].idx = j - 1
C13_Captured == C13_Levels # {} /\ C13_Var.k = "VLOCAL"
C13_NoEntry == \A d \in 1..Len(fs) : fs'[d].ups = fs[d].ups
C13_OnlyEnv ==
  \A d \in 1..Len(fs) :
    /\ SubSeq(fs'[d].ups, 1, Len(fs[d].ups)) = fs[d].ups
    /\ \A i \in (Len(fs[d].ups) + 1)..Len(fs'[d].ups) : fs'[d].ups[i].name = ENVN

C14_Case == status = "parsing" /\ op'.name \in {"local", "localfunction", "for"}
C14_Declared ==
  Cardinality({i \in 1..Len(actvar) : i > CurF.firstlocal})
C14_Needs == IF op'.name = "for" THEN 4 ELSE 1

(* C14: the declaration succeeds while the function stays within MAXVARS   *)
(* variables and fails with TooManyLocals on the first one beyond.         *)
C14_LimitPerFunction ==
  [][C14_Case =>
       IF C14_Declared + C14_Needs <= MAXVARS
       THEN status' = "parsing" /\ Len(actvar') = Len(actvar) + C14_Needs
       ELSE status' = "error" /\ err'.kind = "TooManyLocals"]_vars

(* the 250th declaration of a nested function was refused while the main   *)
(* function holds variables of its own on the shared stack                 *)
C14_Witness ==
  /\ status = "error" /\ err.kind = "TooManyLocals"
  /\ Len(fs) = 2 /\ fs[2].firstlocal > 1
  /\ Len(actvar) - fs[2].firstlocal = MAXVARS

(* C15: the statement list of the last case of a switch has been parsed    *)
(* and default or end may follow.  The switch is finished in two ways:     *)
(* with end at once, and with a default clause (empty, a call, a local     *)
(* declaration) and then end.  The instructions of the case clauses are    *)
(* those up to the end of the last case.                                   *)
C15_Case == status = "parsing" /\ la # "follow" /\ Top.k = "case"
C15_Bodies == {"empty", "call", "local"}
C15_Body(P, d) ==
  IF d = "call" THEN statement_end(callexpr(P, "f").P)
  ELSE IF d = "local" THEN statement_end(localstat(P, "y", "REG", "none"))
  ELSE P
C15_Without == leaveblock(case_close(Cur, Top.l1, "end"))
C15_With(d) ==
  leaveblock(leaveblock(C15_Body(enterblock(case_close(Cur, Top.l1, "default"), FALSE), d)))
C15_Last == Len(F(case_close(Cur, Top.l1, "end")).code)
C15_Same(a, b) == a = b
C15_SameButExit(a, b) ==
  \/ a = b
  \/ a.op = "JMP" /\ a.k = "break" /\ b = [a EXCEPT !.j = b.j]

(* C15 as stated: every instruction of the case clauses is the same with   *)
(* and without the default clause.                                         *)
C15_CasesUnchanged ==
  C15_Case =>
    \A d \in C15_Bodies : \A p \in 1..C15_Last :
      (Ok(C15_Without) /\ Ok(C15_With(d))) =>
        C15_Same(F(C15_With(d)).code[p], F(C15_Without).code[p])

(* C15 amended: the same but for the targets of the break jumps of the     *)
(* case clauses, which are the end of the switch and move with it.         *)
C15_CasesUnchangedButBreaks ==
  C15_Case =>
    \A d \in C15_Bodies : \A p \in 1..C15_Last :
      (Ok(C15_Without) /\ Ok(C15_With(d))) =>
        C15_SameButExit(F(C15_With(d)).code[p], F(C15_Without).code[p])

(* a switch with two case clauses, the first falling through to the        *)
(* second, stands before its default or end                                *)
C15_Witness ==
  /\ C15_Case /\ op.name = "case"
  /\ HasInstr(CurF.code, "JMP", "fall")
  /\ \A d \in C15_Bodies : Ok(C15_With(d))

(* C16: a switch statement whose body has no case clause, only a default   *)
(* clause or nothing before end, parses successfully.                      *)
C16_ZeroCasesParse ==
  [][(status = "parsing" /\ op'.name = "switchnocase") => status' = "parsing"]_vars

(* C17: a compound operator after two targets, both assignable, fails with *)
(* UnsupportedTupleAssignment and emits no store.  With one target the     *)
(* read-only check comes before the right-hand side is parsed (a read-only *)
(* target fails having resolved and emitted nothing else), and an          *)
(* assignable target gets exactly one store.                               *)
C17_New == SubSeq(fs'[Len(fs)].code, Len(CurF.code) + 1, Len(fs'[Len(fs)].code))
C17_IsStore(i, lv) ==
  IF lv.k = "VLOCAL" THEN i.op = "SETLOCAL" /\ i.a = lv.ridx
  ELSE IF lv.k = "VUPVAL" THEN i.op = "SETUPVAL" /\ i.a = lv.info
  ELSE i.op \in {"SETTABUP", "SETFIELD"}
C17_Stores == {p \in DOMAIN C17_New : C17_New[p].op \in {"SETLOCAL", "SETUPVAL", "SETTABUP", "SETFIELD"}}
C17_Target(t) == singlevar(Cur, t)
C17_Assignable(t) == Ok(check_readonly(C17_Target(t).P, C17_Target(t).v))
C17_CompoundOnlyOneTarget ==
  [][status = "parsing" =>
       /\ (op'.name = "mcassign" /\ C17_Assignable(op'.arg[1]) /\ C17_Assignable(op'.arg[2])) =>
            /\ status' = "error" /\ err'.kind = "UnsupportedTupleAssignment"
            /\ C17_Stores = {}
       /\ (op'.name = "cassign" /\ ~C17_Assignable(op'.arg[1])) =>
            /\ status' = "error" /\ err'.kind = "AssignToConst"
            /\ Len(res') = 1 /\ C17_New = <<>>
       /\ (op'.name = "cassign" /\ C17_Assignable(op'.arg[1])) =>
            /\ status' = "parsing"
            /\ Cardinality(C17_Stores) = 1
            /\ \A p \in C17_Stores : C17_IsStore(C17_New[p], C17_Target(op'.arg[1]).v)]_vars

(* C18: a step that adds a target v, a local or an upvalue, to the chain   *)
(* of a multiple assignment.  An earlier target uses v when it is indexed  *)
(* and its table register or its register key is v's register, or its      *)
(* table is the upvalue v.                                                 *)
C18_Uses(e, v) ==
  \/ e.k = "VINDEXUP" /\ v.k = "VUPVAL" /\ e.t = v.info
  \/ e.k \in {"VINDEXED", "VINDEXI", "VINDEXSTR"} /\ v.k = "VLOCAL" /\ e.t = v.ridx
  \/ e.k = "VINDEXED" /\ v.k = "VLOCAL" /\ e.idx = v.ridx
C18_Case ==
  /\ status = "parsing" /\ status' = "parsing" /\ op'.name = "nexttarget"
  /\ Last(Top'.v).k \in {"VLOCAL", "VUPVAL"}
C18_Temp == CurF.freereg
C18_Safe(e, v) ==
  IF e.k = "VINDEXUP" /\ C18_Uses(e, v) THEN [e EXCEPT !.k = "VINDEXSTR", !.t = C18_Temp]
  ELSE [e EXCEPT !.t = IF vkisindexed(e.k) /\ e.k # "VINDEXUP" /\ v.k = "VLOCAL" /\ @ = v.ridx
                       THEN C18_Temp ELSE @,
                 !.idx = IF e.k = "VINDEXED" /\ v.k = "VLOCAL" /\ @ = v.ridx
                         THEN C18_Temp ELSE @]
C18_NoUseOfAssignedVariable ==
  [][C18_Case =>
       LET v == Last(Top'.v)
           new == SubSeq(fs'[Len(fs)].code, Len(CurF.code) + 1, Len(fs'[Len(fs)].code))
       IN /\ \A i \in DOMAIN Top.v : ~C18_Uses(Top'.v[i], v)
          /\ \A i \in DOMAIN Top.v : Top'.v[i] = C18_Safe(Top.v[i], v)
          /\ IF \E i \in DOMAIN Top.v : C18_Uses(Top.v[i], v)
             THEN /\ new = <<Instr("LOAD", C18_Temp, NO_JUMP, v.k)>>
                  /\ fs'[Len(fs)].freereg = CurF.freereg + 1
                  /\ C18_Temp >= luaY_nvarstack(actvar, CurF)
             ELSE /\ new = <<>>
                  /\ fs'[Len(fs)].freereg = CurF.freereg
                  /\ \A i \in DOMAIN Top.v : Top'.v[i] = Top.v[i]]_vars

(* x.f, y[x], x: the third target is a local that the first uses as table  *)
(* and the second as key; both now use the temporary                       *)
C18_Witness ==
  /\ status = "parsing" /\ op.name = "nexttarget" /\ Top.k = "assign" /\ Len(Top.v) = 3
  /\ Top.v[3].k = "VLOCAL" /\ CurF.code # <<>>
  /\ Last(CurF.code) = Instr("LOAD", CurF.freereg - 1, NO_JUMP, "VLOCAL")
  /\ Top.v[1].k = "VINDEXSTR" /\ Top.v[1].t = CurF.freereg - 1
  /\ Top.v[2].k = "VINDEXED" /\ Top.v[2].idx = CurF.freereg - 1

(* x.f, x in a function where x is an upvalue *)
C18_WitnessUpvalue ==
  /\ status = "parsing" /\ op.name = "nexttarget" /\ Top.k = "assign" /\ Len(Top.v) = 2
  /\ Top.v[2].k = "VUPVAL" /\ CurF.code # <<>>
  /\ Last(CurF.code) = Instr("LOAD", CurF.freereg - 1, NO_JUMP, "VUPVAL")
  /\ Top.v[1].k = "VINDEXSTR" /\ Top.v[1].t = CurF.freereg - 1

(* C19: when a function body with a declared return hint has been parsed,  *)
(* the ReturnTypeMismatch warning is given if and only if the kind the     *)
(* body propagated is concrete and differs from the hint.                  *)
C19_Warned == \E i \in DOMAIN warn' : warn'[i].kind = "ReturnTypeMismatch"
C19_WarningIffMismatch ==
  [][(status = "parsing" /\ status' = "parsing" /\ op'.name = "end" /\ op'.arg = "function"
        /\ Top.ret.hint # NoType) =>
       (C19_Warned <=> (Top.ret.p # NoType /\ Top.ret.p # Top.ret.hint))]_vars

(* C20: on a local declaration with one initializer and on a plain         *)
(* assignment to a local, the TypeMismatch warning is given if and only if *)
(* the hint of the local and the kind seen for the expression are concrete *)
(* and differ; the kind of a global is not known.                          *)
C20_Warned == \E i \in DOMAIN warn' : warn'[i].kind = "TypeMismatch"
C20_Seen(e) == exprprop(e, NoType)
C20_Mismatch(hint, e) == hint # NoType /\ C20_Seen(e) # NoType /\ hint # C20_Seen(e)
C20_Target(t) == singlevar(Cur, t).v
C20_WarningIffMismatch ==
  [][(status = "parsing" /\ status' = "parsing") =>
       /\ (op'.name = "localhint" /\ op'.arg[4] # "none") =>
            (C20_Warned <=> C20_Mismatch(gettypehint(op'.arg[2]), op'.arg[4]))
       /\ (op'.name = "assign" /\ C20_Target(op'.arg[1]).k = "VLOCAL") =>
            (C20_Warned <=>
               C20_Mismatch(getlocalvardesc(actvar, CurF, C20_Target(op'.arg[1]).vidx).typehint,
                            op'.arg[2]))]_vars

(* C21: a local statement that declares a name which an active local of    *)
(* the same function already has gives the duplicate-declaration warning,  *)
(* in the main chunk and in a nested function alike                        *)
C21_Warned == \E i \in DOMAIN warn' : warn'[i].kind = "DuplicateLocalDeclaration"
C21_Active(n) ==
  \E i \in 0 .. CurF.nactvar - 1 : getlocalvardesc(actvar, CurF, i).name = n
C21_Declares == op'.name = "local" /\ status' = "parsing"
C21_DuplicateWarned ==
  [][(C21_Declares /\ C21_Active(op'.arg[1])) => C21_Warned]_vars
(* the part the code keeps: in a function whose variables start the table  *)
(* and hold no compile-time constant the warning is given                  *)
C21_MainWarned ==
  [][(C21_Declares /\ C21_Active(op'.arg[1]) /\ CurF.firstlocal = 0
      /\ luaY_nvarstack(actvar, CurF) = CurF.nactvar) => C21_Warned]_vars
C21_WitnessNested ==
  /\ op.name = "local" /\ status = "parsing" /\ Len(fs) > 1 /\ CurF.nactvar >= 2
  /\ getlocalvardesc(actvar, CurF, 0).name = getlocalvardesc(actvar, CurF, 1).name
  /\ warn = <<>>

(* the gotos pending from inside the innermost block that are still        *)
(* pending when a do block or a while loop has been left: the loop         *)
(* resolves the breaks                                                     *)
C22_Leaves == op'.name = "end" /\ op'.arg \in {"do", "while"} /\ status' = "parsing"
C22_Inside ==
  LET tail == SubSeq(gt, CurB.firstgoto + 1, Len(gt))
      NotBreak(g) == g.name # "break"
  IN IF Top.k = "while" THEN SelectSeq(tail, NotBreak) ELSE tail
C22_After(i) == gt'[CurB.firstgoto + i]
C22_Bounded ==
  status = "parsing" => \A i \in DOMAIN gt :
    LET own == {d \in DOMAIN fs : fs[d].bl[1].firstgoto <= i - 1}
    IN gt[i].nactvar <= fs[SetMax(own)].nactvar

(* C22 as stated: every goto pending from inside the block left whose      *)
(* count exceeds the block's count at entry has its close flag set and its *)
(* count lowered to the block's count, and no pending goto has a count     *)
(* above the number of active variables of its function                    *)
C22_EveryGotoMarked ==
  [][(C22_Leaves =>
        /\ Len(gt') = CurB.firstgoto + Len(C22_Inside)
        /\ \A i \in DOMAIN C22_Inside :
             C22_Inside[i].nactvar > CurB.nactvar =>
               (C22_After(i).close /\ C22_After(i).nactvar = CurB.nactvar))
     /\ C22_Bounded']_vars

(* C22 amended: the close flag is set for a goto whose register level      *)
(* exceeds the block's level at entry when the block has a captured        *)
(* variable, and is kept otherwise; the count of every goto pending from   *)
(* inside is lowered to the block's count; no pending goto has a count     *)
(* above the number of active variables of its function                    *)
C22_GotoMarkedIfUpvalue ==
  [][(C22_Leaves =>
        /\ Len(gt') = CurB.firstgoto + Len(C22_Inside)
        /\ \A i \in DOMAIN C22_Inside :
             /\ C22_After(i).nactvar = CurB.nactvar
             /\ C22_After(i).close =
                  (C22_Inside[i].close
                   \/ (CurB.upval
                       /\ reglevel(actvar, CurF, C22_Inside[i].nactvar)
                            > reglevel(actvar, CurF, CurB.nactvar))))
     /\ C22_Bounded']_vars
C22_Witness ==
  /\ op.name = "end" /\ op.arg = "do" /\ status = "parsing"
  /\ \E i \in DOMAIN gt : gt[i].close /\ gt[i].name = "l1"
C22_WitnessUnmarked ==
  /\ op.name = "end" /\ op.arg = "do" /\ status = "parsing" /\ CurF.nactvar = 0
  /\ Len(actvar) > 0
  /\ \E i \in DOMAIN gt : ~gt[i].close /\ gt[i].name = "l1" /\ gt[i].pc > 0

(* a label statement that is not a repeated label; it is at the end of its *)
(* block when only void statements follow up to the token that ends the    *)
(* statement list, the until of a repeat loop included                     *)
C23_Case == status = "parsing" /\ op'.name = "label" /\ err'.kind # "DuplicateLabel"
C23_AtEnd == op'.arg[2] \/ Len(op'.arg) = 3
C23_Level == label'[Len(label) + 1].nactvar
C23_Resolved ==
  /\ status' = "parsing"
  /\ \A i \in 1..Len(gt') : ~(i > CurB.firstgoto /\ gt'[i].name = op'.arg[1])

(* C23 as stated: a label at the end of its block takes the level of the   *)
(* block entry and the gotos of the block to it are resolved without       *)
(* error; any other label keeps the current level                          *)
C23_LastLabelAtBlockLevel ==
  [][C23_Case => IF C23_AtEnd THEN C23_Level = CurB.nactvar /\ C23_Resolved
                 ELSE C23_Level = CurF.nactvar]_vars

(* C23 amended: so it is when the block ends with end, else, elseif or the *)
(* end of the chunk; a label followed by the until of a repeat loop keeps  *)
(* the current level, as a label followed by a statement does              *)
C23_LastLabelUnlessUntil ==
  [][C23_Case => IF op'.arg[2] THEN C23_Level = CurB.nactvar /\ C23_Resolved
                 ELSE C23_Level = CurF.nactvar]_vars
C23_Witness ==
  /\ op.name = "label" /\ op.arg[2] /\ status = "parsing"
  /\ Last(label).nactvar < CurF.nactvar
  /\ \E i \in DOMAIN CurF.code : CurF.code[i].k = "goto" /\ CurF.code[i].j = Last(label).pc
C23_WitnessUntil ==
  /\ op.name = "label" /\ Len(op.arg) = 3 /\ status = "error" /\ err.kind = "JumpIntoScope"

(* the code of an if expression: the instructions the statement added, the *)
(* jump over the else branch, and the registers the two branches load      *)
C24_Case == op'.name = "localif" /\ status' = "parsing"
C24_Code == fs'[Len(fs)].code
C24_Escape ==
  SetMax({i \in Len(CurF.code) + 1 .. Len(C24_Code) : C24_Code[i].k = "escape"})
C24_Else ==
  {i \in C24_Escape + 1 .. Len(C24_Code) :
     C24_Code[i].op = "LOAD" /\ C24_Code[i].k # "VNONRELOC"}
C24_Then ==
  {i \in Len(CurF.code) + 1 .. C24_Escape - 1 : C24_Code[i].op = "LOAD"}
C24_Temporary(i) == C24_Code[i].a >= luaY_nvarstack(actvar, CurF)

(* C24: the then branch and the else branch of an if expression load the   *)
(* same register, and the register the else branch writes is not the       *)
(* register of a local active when the expression starts                   *)
C24_ElseWritesTemporary ==
  [][C24_Case =>
       /\ \A i \in C24_Else : C24_Temporary(i)
       /\ \A i \in C24_Then, j \in C24_Else : C24_Code[i].a = C24_Code[j].a]_vars
(* what the code keeps: so it is unless e1 is a plain local variable       *)
C24_ElseWritesTemporaryUnlessLocal ==
  [][(C24_Case /\ ~(op'.arg[2] # "k" /\ res'[1].k = "VLOCAL")) =>
       /\ \A i \in C24_Else : C24_Temporary(i)
       /\ \A i \in C24_Then, j \in C24_Else : C24_Code[i].a = C24_Code[j].a]_vars

(* the end of a switch statement; the block of the switch was entered      *)
(* right after the control local was declared, so the statement began with *)
(* one active variable less than its block records                         *)
C25_Case == op'.name = "end" /\ op'.arg = "switch" /\ status' = "parsing"
C25_Before == CurF.bl[Len(CurF.bl) - 1].nactvar - 1

(* C25: a complete switch statement leaves the number of active variables, *)
(* the size of the variable table and the register level of the variables  *)
(* as they were before the statement                                       *)
C25_SwitchLeavesNoLocal ==
  [][C25_Case =>
       /\ fs'[Len(fs)].nactvar = C25_Before
       /\ Len(actvar') = CurF.firstlocal + C25_Before
       /\ luaY_nvarstack(actvar', fs'[Len(fs)]) = reglevel(actvar, CurF, C25_Before)]_vars
(* what the code does: the control local stays active after the switch     *)
C25_SwitchLeavesControlLocal ==
  [][C25_Case =>
       /\ fs'[Len(fs)].nactvar = C25_Before + 1
       /\ Len(actvar') = CurF.firstlocal + C25_Before + 1
       /\ getlocalvardesc(actvar', fs'[Len(fs)], C25_Before).name = "(switch)"
       /\ luaY_nvarstack(actvar', fs'[Len(fs)]) = reglevel(actvar, CurF, C25_Before) + 1]_vars

(* C26: a list of two or more targets that is followed by neither '=' nor  *)
(* a compound operator is a syntax error, and no store is emitted for it   *)
C26_Case == op'.name = "assignstop"
C26_TargetsWithoutValuesRejected ==
  [][C26_Case =>
       /\ status' = "error" /\ err'.kind = "SyntaxError"
       /\ fs'[Len(fs)].code = CurF.code]_vars
(* what the code does: it stores register freereg - 1 to every target, the *)
(* last one first, and goes on                                             *)
C26_DefaultAssignment ==
  [][C26_Case =>
       /\ status' = "parsing"
       /\ Len(fs'[Len(fs)].code) >= Len(CurF.code) + op'.arg
       /\ \E i \in DOMAIN fs'[Len(fs)].code :
            /\ i > Len(CurF.code)
            /\ fs'[Len(fs)].code[i].op \in {"SETLOCAL", "SETUPVAL", "SETTABUP", "SETFIELD"}]_vars

(* C27: the assertion at the end of statement never fails, and a compound  *)
(* assignment to a target that is not a local reserves no negative number  *)
(* of registers                                                            *)
C27_Compound ==
  /\ status = "parsing" /\ op'.name = "cassign"
  /\ res' # <<>> /\ res'[1].k # "VLOCAL"
C27_WatermarkKept ==
  [][/\ "statement" \notin afail'
     /\ C27_Compound => CurF.freereg - CurF.nactvar >= 0]_vars
(* without a compile-time constant among the active variables of the       *)
(* function both hold                                                      *)
C27_NoConstant ==
  \A i \in 0 .. CurF.nactvar - 1 : getlocalvardesc(actvar, CurF, i).kind # "CTC"
C27_WatermarkKeptWithoutConstant ==
  [][(status = "parsing" /\ C27_NoConstant) =>
       /\ afail' \subseteq afail
       /\ C27_Compound => CurF.freereg - CurF.nactvar >= 0]_vars
(* a statement has ended with the free register below the registers of    *)
(* the active variables                                                    *)
C27_AssertionFailed == status = "parsing" /\ op.name = "cassign" /\ "statement" \in afail

(* a continue that emits a Close: the loop it continues, and the level at  *)
(* which the scope of the body of that loop begins, which is the level of  *)
(* the block entered next inside the block of the loop                     *)
C28_Case ==
  /\ status = "parsing" /\ status' = "parsing" /\ op'.name = "continue"
  /\ Len(fs'[Len(fs)].code) = Len(CurF.code) + 2
  /\ fs'[Len(fs)].code[Len(CurF.code) + 1].op = "CLOSE"
C28_Loop == findloop(CurF.bl, Len(CurF.bl), op'.arg, FALSE).b
C28_Operand == fs'[Len(fs)].code[Len(CurF.code) + 1].a

(* C28: the operand of the Close of a continue is the register level at    *)
(* which the scope of the body of the loop begins                          *)
C28_CloseAtBodyLevel ==
  [][C28_Case => C28_Operand = reglevel(actvar, CurF, CurF.bl[C28_Loop + 1].nactvar)]_vars
(* what the code does: the operand is the number of variables active when  *)
(* the block of the loop was entered                                       *)
C28_CloseAtLoopCount ==
  [][C28_Case => C28_Operand = CurF.bl[C28_Loop].nactvar]_vars

(* the until of a repeat loop: the jumps of the continue statements of the *)
(* loop are patched to the condition, where the variables of the scope     *)
(* block of the loop are active                                            *)
C29_Case == status = "parsing" /\ op'.name = "until" /\ status' = "parsing"
C29_Jumps == CurF.bl[Len(CurF.bl) - 1].scopeend
C29_Later(pc) ==
  {v \in CurB.nactvar .. CurF.nactvar - 1 :
     /\ getlocalvardesc(actvar, CurF, v).kind # "CTC"
     /\ getlocalvardesc(actvar, CurF, v).startpc > pc}

(* C29: no continue of a repeat loop jumps to a point where a local        *)
(* declared after the continue is active                                   *)
C29_ContinueNotIntoScope ==
  [][C29_Case =>
       \A pc \in C29_Jumps :
         fs'[Len(fs)].code[pc + 1].j = Len(CurF.code) => C29_Later(pc) = {}]_vars
(* what the code does: every continue of the loop jumps to the condition   *)
C29_ContinueToCondition ==
  [][C29_Case => \A pc \in C29_Jumps : fs'[Len(fs)].code[pc + 1].j = Len(CurF.code)]_vars

(* the key a safe navigation indexes with: the operand of GETI, or the     *)
(* immediate loaded into the key register                                  *)
C30_Case == op'.name = "localnav" /\ status = "parsing"
C30_Form == op'.arg[3]
C30_Code == fs'[Len(fs)].code
C30_Keys ==
  {C30_Code[i].j : i \in {n \in Len(CurF.code) + 1 .. Len(C30_Code) :
                            C30_Code[n].op = "GETI"
                            \/ (C30_Code[n].op = "LOADI" /\ C30_Code[n].k = "key")}}

(* C30: r?[-n] indexes with the value of -n, and a unary minus on a string *)
(* constant fails with SafeNavOnNonNumeric                                 *)
C30_KeyIsValue ==
  [][(C30_Case /\ C30_Form[1] = "-") =>
       IF C30_Form[2] = "int"
       THEN status' = "parsing" /\ C30_Keys = {0 - C30_Form[3]}
       ELSE status' = "error" /\ err'.kind = "SafeNavOnNonNumeric"]_vars
(* what the code does: r?[-n] indexes with n, as r?[n] does                *)
C30_KeyIsOperand ==
  [][(C30_Case /\ C30_Form[2] = "int") =>
       status' = "parsing" /\ C30_Keys = {C30_Form[3]}]_vars
C30_MinusOnString ==
  [][(C30_Case /\ C30_Form[1] = "-" /\ C30_Form[2] = "str") =>
       status' = "error" /\ err'.kind = "SafeNavOnNonNumeric"]_vars

====
